---- MODULE Spec2Model ----
(***************************************************************************)
(* SrBoy delivery backend (backend/server.py): the transactional delivery  *)
(* path.  A delivery document carries the hand-off PIN sub-record; the     *)
(* handlers create_delivery, accept_delivery, validate_delivery_pin and    *)
(* update_delivery_status read and write the deliveries and users          *)
(* collections.                                                            *)
(*                                                                         *)
(* Spec     : every handler is one atomic step (the handlers are           *)
(*            `async def` bodies without an await, run by one event loop). *)
(* SpecConc : create_delivery and accept_delivery are split at their       *)
(*            database operations and interleave (several workers on one   *)
(*            database).                                                   *)
(*                                                                         *)
(* SpecVal  : validate_delivery_pin split at its find_one / update_one.    *)
(* SpecMatch, SpecCreate : find_best_motoboy and create_delivery over any  *)
(*            registered couriers.                                         *)
(* SpecRisk : SecurityAnalyzer.analyze_behavioral_risk                     *)
(*            (backend/security_algorithms.py) over courier histories.     *)
(* SpecRoute: RouteOptimizer.optimize_multiple_deliveries over lists of    *)
(*            deliveries.                                                  *)
(* SpecModerate : ChatModerator.moderate_message over chat messages.       *)
(* SpecDemand   : DemandPredictor.generate_demand_heatmap over cities and  *)
(*            target times.                                                *)
(* SpecWaiting  : the atomic handlers together with update_waiting_time.   *)
(*                                                                         *)
(* Abstractions: a coordinate is an integer kilometre mark on a line, so   *)
(* calculate_distance is |a - b|; money is whole reais; a timestamp is     *)
(* "None" or "now"; Python's None for a PIN string is the empty sequence   *)
(* (both are falsy, and the code only tests truthiness).                   *)
(***************************************************************************)
EXTENDS Integers, Sequences, FiniteSets, TLC

VARIABLES
    deliveries,   \* deliveries_collection: sequence of documents, id = index
    users,        \* users_collection: user id -> document
    response,     \* what the last handler returned (or the HTTP error raised)
    prev,         \* history: the collections as the last step found them
    procs         \* SpecConc: the requests in flight, one record per worker

vars == <<deliveries, users, response, prev, procs>>

-----------------------------------------------------------------------------
(* Bounds of the model *)

MaxDeliveries == 1
MaxSeeds == 2
MaxCompleted == 2

(* Program constants *)

PinLength == 8
ConfirmLength == 4
MaxAttempts == 3
BasePrice == 10
PlatformFee == 2
MotoboyBase == 8
PricePerKm == 2
ShortDistance == 4
InitialLojaBalance == 150
DefaultRanking == 100

NoneVal == "None"
NoPin == << >>

Couriers == {"m1", "m2"}
Lojistas == {"l1"}
Cities == {"Aracariguama", "Sao Roque"}

-----------------------------------------------------------------------------
(* Strings *)

\* string.ascii_uppercase + string.digits
Characters ==
    << "A","B","C","D","E","F","G","H","I","J","K","L","M",
       "N","O","P","Q","R","S","T","U","V","W","X","Y","Z",
       "0","1","2","3","4","5","6","7","8","9" >>

LowerLetters ==
    << "a","b","c","d","e","f","g","h","i","j","k","l","m",
       "n","o","p","q","r","s","t","u","v","w","x","y","z" >>

\* str.upper() on one character
UpperChar(c) ==
    IF \E i \in 1..Len(LowerLetters) : LowerLetters[i] = c
    THEN Characters[CHOOSE i \in 1..Len(LowerLetters) : LowerLetters[i] = c]
    ELSE c

\* str.upper()
Upper(s) == [i \in 1..Len(s) |-> UpperChar(s[i])]

\* str.lower() on one character (used to build lower-case inputs)
LowerChar(c) ==
    IF \E i \in 1..Len(LowerLetters) : Characters[i] = c
    THEN LowerLetters[CHOOSE i \in 1..Len(LowerLetters) : Characters[i] = c]
    ELSE c

Lower(s) == [i \in 1..Len(s) |-> LowerChar(s[i])]

\* s[-n:]
LastChars(s, n) ==
    IF Len(s) <= n THEN s ELSE SubSeq(s, Len(s) - n + 1, Len(s))

-----------------------------------------------------------------------------
(* generate_delivery_pin *)

\* random.choice(characters): the i-th draw of the generator in state `seed`.
\* The generator's state is the nondeterministic input; MaxSeeds bounds it.
RandomChoice(seed, i) ==
    Characters[((seed * 11 + i * 7) % Len(Characters)) + 1]

Seeds == 0..(MaxSeeds - 1)

\* pin_completo = ''.join(random.choice(characters) for _ in range(8))
PinCompleto(seed) == [i \in 1..PinLength |-> RandomChoice(seed, i)]

\* mutant: the first 4 characters instead of the last 4
PinConfirmacaoFirst(pin_completo) == SubSeq(pin_completo, 1, ConfirmLength)

\* pin_confirmacao = pin_completo[-4:]
PinConfirmacao(pin_completo) == LastChars(pin_completo, ConfirmLength)

\* (pin_completo, pin_confirmacao)
generate_delivery_pin(seed) ==
    LET pin == PinCompleto(seed)
    IN  [pin_completo |-> pin, pin_confirmacao |-> PinConfirmacao(pin)]

-----------------------------------------------------------------------------
(* Documents *)

\* Delivery(...).dict(): every field of the model is present from creation,
\* the PIN fields with their defaults (None, None, 0, False).  The addresses,
\* the distance and the timestamps are written once and never read back by
\* the handlers below, so the document does not keep them.
\* pin_validado_com_sucesso and pin_validado_em are not fields of the model;
\* every read is .get(..., False), so "absent" is kept as FALSE / "None".
Delivery(lojista_id, pricing) ==
    [ lojista_id |-> lojista_id,
      motoboy_id |-> NoneVal,
      waiting_fee |-> 0,
      total_price |-> pricing.total_price,
      motoboy_earnings |-> pricing.motoboy_earnings,
      status |-> "pending",
      pin_completo |-> NoPin,
      pin_confirmacao |-> NoPin,
      pin_tentativas |-> 0,
      pin_bloqueado |-> FALSE,
      pin_validado_com_sucesso |-> FALSE,
      pin_validado_em |-> NoneVal ]

\* update_one(filter, {"$set": upd}) on one document
ApplySet(doc, upd) ==
    [f \in DOMAIN doc |-> IF f \in DOMAIN upd THEN upd[f] ELSE doc[f]]

\* find_one({"id": delivery_id})
Found(ds, delivery_id) == delivery_id \in DOMAIN ds

DeliveryIds == 1..MaxDeliveries

HasPin(doc) == doc.pin_confirmacao # NoPin

-----------------------------------------------------------------------------
(* Helper functions *)

Abs(x) == IF x < 0 THEN 0 - x ELSE x

Max2(a, b) == IF a >= b THEN a ELSE b

\* calculate_distance: a location is <<>> (missing) or <<km>>
calculate_distance(point1, point2) ==
    IF point1 = << >> \/ point2 = << >> THEN 0
    ELSE Abs(point1[1] - point2[1])

calculate_delivery_price(distance_km) ==
    IF distance_km <= ShortDistance
    THEN [ total_price |-> BasePrice,
           motoboy_earnings |-> BasePrice - PlatformFee ]
    ELSE [ total_price |-> BasePrice + distance_km * PricePerKm,
           motoboy_earnings |-> MotoboyBase + distance_km * PricePerKm ]

\* users_collection.find(...) returns documents in insertion order
CourierOrder == << "m1", "m2" >>

\* weighted_score * 10, to stay in the integers:
\* ranking_score * 0.7 + max(0, 100 - distance * 10) * 0.3
WeightedScore(us, m, pickup) ==
    LET distance_to_pickup == calculate_distance(us[m].current_location, pickup)
        proximity_score == Max2(0, 100 - distance_to_pickup * 10)
    IN  us[m].ranking_score * 7 + proximity_score * 3

\* mutant: the pickup city is not part of the query
CandidatesAnyCity(us, city) ==
    { i \in 1..Len(CourierOrder) :
        LET m == CourierOrder[i]
        IN  /\ us[m].is_available
            /\ us[m].current_location # << >> }

\* the couriers find_best_motoboy keeps as candidates
Candidates(us, city) ==
    { i \in 1..Len(CourierOrder) :
        LET m == CourierOrder[i]
        IN  /\ us[m].is_available
            /\ us[m].base_city = city
            /\ us[m].current_location # << >> }

\* mutant: with no candidate the first courier found is returned
find_best_motoboyFallback(us, city, pickup) ==
    LET cands == Candidates(us, city)
    IN  IF cands = {} THEN CourierOrder[1]
        ELSE CourierOrder[
               CHOOSE i \in cands :
                 \A j \in cands :
                   LET si == WeightedScore(us, CourierOrder[i], pickup)
                       sj == WeightedScore(us, CourierOrder[j], pickup)
                   IN  si > sj \/ (si = sj /\ i <= j) ]

\* candidates.sort(key=weighted_score, reverse=True); candidates[0]
\* (the sort is stable: among equal scores the first found stays first)
find_best_motoboy(us, city, pickup) ==
    LET cands == Candidates(us, city)
    IN  IF cands = {} THEN NoneVal
        ELSE CourierOrder[
               CHOOSE i \in cands :
                 \A j \in cands :
                   LET si == WeightedScore(us, CourierOrder[i], pickup)
                       sj == WeightedScore(us, CourierOrder[j], pickup)
                   IN  si > sj \/ (si = sj /\ i <= j) ]

-----------------------------------------------------------------------------
(* validate_delivery_pin(delivery_id, entered_pin), as a function of the
   document it read: the dict it returns and the $set it issues *)

PinMatches(doc, entered_pin) == Upper(entered_pin) = Upper(doc.pin_confirmacao)

\* mutant: the code is compared before the blocked flag is looked at
ValidateResultMatchFirst(doc, entered_pin) ==
    IF HasPin(doc) /\ PinMatches(doc, entered_pin)
    THEN [success |-> TRUE, code |-> "PIN_VALID"]
    ELSE IF doc.pin_bloqueado
    THEN [success |-> FALSE, code |-> "PIN_BLOCKED"]
    ELSE IF ~HasPin(doc)
    THEN [success |-> FALSE, code |-> "NO_PIN"]
    ELSE [success |-> FALSE, code |-> "PIN_INCORRECT",
          attempts |-> doc.pin_tentativas + 1,
          remaining |-> MaxAttempts - (doc.pin_tentativas + 1)]

\* mutant: blocks one attempt late (> instead of >=)
ValidateResultLateBlock(doc, entered_pin) ==
    IF doc.pin_bloqueado
    THEN [success |-> FALSE, code |-> "PIN_BLOCKED"]
    ELSE IF ~HasPin(doc)
    THEN [success |-> FALSE, code |-> "NO_PIN"]
    ELSE IF PinMatches(doc, entered_pin)
    THEN [success |-> TRUE, code |-> "PIN_VALID"]
    ELSE LET new_attempts == doc.pin_tentativas + 1
         IN  IF new_attempts > MaxAttempts
             THEN [success |-> FALSE, code |-> "PIN_BLOCKED",
                   attempts |-> new_attempts]
             ELSE [success |-> FALSE, code |-> "PIN_INCORRECT",
                   attempts |-> new_attempts,
                   remaining |-> MaxAttempts - new_attempts]

ValidateResult(doc, entered_pin) ==
    IF doc.pin_bloqueado
    THEN [success |-> FALSE, code |-> "PIN_BLOCKED"]
    ELSE IF ~HasPin(doc)
    THEN [success |-> FALSE, code |-> "NO_PIN"]
    ELSE IF PinMatches(doc, entered_pin)
    THEN [success |-> TRUE, code |-> "PIN_VALID"]
    ELSE LET new_attempts == doc.pin_tentativas + 1
         IN  IF new_attempts >= MaxAttempts
             THEN [success |-> FALSE, code |-> "PIN_BLOCKED",
                   attempts |-> new_attempts]
             ELSE [success |-> FALSE, code |-> "PIN_INCORRECT",
                   attempts |-> new_attempts,
                   remaining |-> MaxAttempts - new_attempts]

\* the fields the call sets; the empty record when it writes nothing
NoUpdate == [f \in {} |-> FALSE]

\* mutant: a correct code validates a blocked PIN too
ValidateUpdateNoBlockCheck(doc, entered_pin) ==
    IF ~HasPin(doc)
    THEN NoUpdate
    ELSE IF PinMatches(doc, entered_pin)
    THEN [ pin_tentativas |-> 0,
           pin_validado_com_sucesso |-> TRUE,
           pin_validado_em |-> "now" ]
    ELSE IF doc.pin_bloqueado
    THEN NoUpdate
    ELSE LET new_attempts == doc.pin_tentativas + 1
         IN  IF new_attempts >= MaxAttempts
             THEN [pin_tentativas |-> new_attempts, pin_bloqueado |-> TRUE]
             ELSE [pin_tentativas |-> new_attempts]

\* mutant: a wrong attempt writes 1 instead of the stored count plus 1
ValidateUpdateForgetsCount(doc, entered_pin) ==
    IF doc.pin_bloqueado \/ ~HasPin(doc)
    THEN NoUpdate
    ELSE IF PinMatches(doc, entered_pin)
    THEN [ pin_tentativas |-> 0,
           pin_validado_com_sucesso |-> TRUE,
           pin_validado_em |-> "now" ]
    ELSE [pin_tentativas |-> 1]

\* mutant: an attempt on a delivery without a PIN is counted
ValidateUpdateCountsNoPin(doc, entered_pin) ==
    IF doc.pin_bloqueado
    THEN NoUpdate
    ELSE IF ~HasPin(doc)
    THEN [pin_tentativas |-> doc.pin_tentativas + 1]
    ELSE IF PinMatches(doc, entered_pin)
    THEN [ pin_tentativas |-> 0,
           pin_validado_com_sucesso |-> TRUE,
           pin_validado_em |-> "now" ]
    ELSE LET new_attempts == doc.pin_tentativas + 1
         IN  IF new_attempts >= MaxAttempts
             THEN [pin_tentativas |-> new_attempts, pin_bloqueado |-> TRUE]
             ELSE [pin_tentativas |-> new_attempts]

ValidateUpdate(doc, entered_pin) ==
    IF doc.pin_bloqueado \/ ~HasPin(doc)
    THEN NoUpdate
    ELSE IF PinMatches(doc, entered_pin)
    THEN [ pin_tentativas |-> 0,
           pin_validado_com_sucesso |-> TRUE,
           pin_validado_em |-> "now" ]
    ELSE LET new_attempts == doc.pin_tentativas + 1
         IN  IF new_attempts >= MaxAttempts
             THEN [pin_tentativas |-> new_attempts, pin_bloqueado |-> TRUE]
             ELSE [pin_tentativas |-> new_attempts]

-----------------------------------------------------------------------------
(* The writes of create_delivery and accept_delivery *)

\* create_delivery's $set on auto-match
MatchSet(motoboy_id, pin) ==
    [ motoboy_id |-> motoboy_id,
      status |-> "matched",
      pin_completo |-> pin.pin_completo,
      pin_confirmacao |-> pin.pin_confirmacao,
      pin_tentativas |-> 0,
      pin_bloqueado |-> FALSE ]

\* mutant: the filter forgets the clause on pin_confirmacao
AcceptFilterAnyMatched(doc, motoboy_id) ==
    \/ doc.status = "pending"
    \/ doc.status = "matched" /\ doc.motoboy_id = motoboy_id

\* accept_delivery's filter: pending, or matched to this motoboy with no
\* pin_confirmacao field ($exists: False is about the field, not its value)
AcceptFilter(doc, motoboy_id) ==
    \/ doc.status = "pending"
    \/ /\ doc.status = "matched"
       /\ doc.motoboy_id = motoboy_id
       /\ "pin_confirmacao" \notin DOMAIN doc

\* accept_delivery's $set
AcceptSet(motoboy_id, pin) ==
    [ motoboy_id |-> motoboy_id,
      status |-> "matched",
      pin_completo |-> pin.pin_completo,
      pin_confirmacao |-> pin.pin_confirmacao,
      pin_tentativas |-> 0,
      pin_bloqueado |-> FALSE ]

\* {"$inc": {field: amount}} on one user
IncUser(us, user_id, field, amount) ==
    IF user_id \in DOMAIN us
    THEN [us EXCEPT ![user_id][field] = @ + amount]
    ELSE us

\* {"$set": {field: value}} on one user
SetUser(us, user_id, field, value) ==
    IF user_id \in DOMAIN us
    THEN [us EXCEPT ![user_id][field] = value]
    ELSE us

-----------------------------------------------------------------------------
(* update_delivery_status *)

allowed_statuses ==
    { "pickup_confirmed", "in_transit", "waiting",
      "delivered", "cancelled", "client_not_found" }

\* mutant: the gate looks at the blocked flag only
DeliveredGateBlockedOnly(doc) ==
    IF HasPin(doc) /\ doc.pin_bloqueado THEN "PIN bloqueado" ELSE "ok"

\* the PIN gate of the delivered branch: the detail of the HTTP 400 it raises,
\* or "ok"
DeliveredGate(doc) ==
    IF HasPin(doc)
    THEN IF doc.pin_bloqueado THEN "PIN bloqueado"
         ELSE IF ~doc.pin_validado_com_sucesso THEN "PIN deve ser validado"
         ELSE "ok"
    ELSE "ok"

\* the permission check: a motoboy may only touch his own delivery
NotYourDelivery(us, user_id, doc) ==
    us[user_id].user_type = "motoboy" /\ doc.motoboy_id # user_id

-----------------------------------------------------------------------------
(* State *)

Idle == [pc |-> "idle"]

Workers == 1..2

Positions == {1, 7}

Motoboy(city, location) ==
    [ user_type |-> "motoboy",
      is_available |-> TRUE,
      base_city |-> city,
      current_location |-> location,
      ranking_score |-> DefaultRanking,
      wallet_balance |-> 0,
      total_deliveries |-> 0 ]

Lojista(balance) ==
    [ user_type |-> "lojista", loja_wallet_balance |-> balance ]

UserIds == Couriers \cup Lojistas

\* two registered couriers of the same city who have reported a location,
\* and one shop with the default balance
Init ==
    /\ deliveries = << >>
    /\ users = [u \in UserIds |->
                  IF u = "m1" THEN Motoboy("Aracariguama", <<1>>)
                  ELSE IF u = "m2" THEN Motoboy("Aracariguama", <<7>>)
                  ELSE Lojista(InitialLojaBalance)]
    /\ response = [op |-> "none"]
    /\ prev = [deliveries |-> << >>, users |-> users]
    /\ procs = [w \in Workers |-> Idle]

\* every step records the collections it started from
Remember == prev' = [deliveries |-> deliveries, users |-> users]

-----------------------------------------------------------------------------
(* The handlers, each as one atomic step *)

\* POST /api/deliveries
CreateDelivery(user_id, city, pickup, drop, seed) ==
    /\ Len(deliveries) < MaxDeliveries
    /\ Remember
    /\ UNCHANGED procs
    /\ IF users[user_id].user_type # "lojista"
       THEN /\ response' = [op |-> "create", http |-> 403]
            /\ UNCHANGED <<deliveries, users>>
       ELSE
       LET distance_km == calculate_distance(<<pickup>>, <<drop>>)
           pricing == calculate_delivery_price(distance_km)
           current_balance == users[user_id].loja_wallet_balance
           doc == Delivery(user_id, pricing)
           id == Len(deliveries) + 1
           best_match == find_best_motoboy(users, city, <<pickup>>)
           pin == generate_delivery_pin(seed)
       IN  IF current_balance < pricing.total_price
           THEN /\ response' = [op |-> "create", http |-> 400]
                /\ UNCHANGED <<deliveries, users>>
           ELSE IF best_match # NoneVal
           THEN /\ deliveries' =
                      Append(deliveries, ApplySet(doc, MatchSet(best_match, pin)))
                /\ users' = IncUser(users, user_id, "loja_wallet_balance",
                                    0 - pricing.total_price)
                /\ response' = [op |-> "create", http |-> 200, id |-> id,
                                city |-> city,
                                matched_motoboy |-> best_match,
                                pin_confirmacao |-> pin.pin_confirmacao]
           ELSE /\ deliveries' = Append(deliveries, doc)
                /\ UNCHANGED users
                /\ response' = [op |-> "create", http |-> 200, id |-> id,
                                city |-> city,
                                matched_motoboy |-> NoneVal]

\* POST /api/deliveries/{delivery_id}/accept
AcceptDelivery(user_id, delivery_id, seed) ==
    /\ Remember
    /\ UNCHANGED procs
    /\ IF users[user_id].user_type # "motoboy"
       THEN /\ response' = [op |-> "accept", id |-> delivery_id, http |-> 403]
            /\ UNCHANGED <<deliveries, users>>
       ELSE IF ~(Found(deliveries, delivery_id)
                 /\ AcceptFilter(deliveries[delivery_id], user_id))
       THEN /\ response' = [op |-> "accept", id |-> delivery_id, http |-> 404]
            /\ UNCHANGED <<deliveries, users>>
       ELSE LET pin == generate_delivery_pin(seed)
            IN  /\ deliveries' =
                     [deliveries EXCEPT ![delivery_id] =
                        ApplySet(@, AcceptSet(user_id, pin))]
                /\ users' = SetUser(users, user_id, "is_available", FALSE)
                /\ response' = [op |-> "accept", id |-> delivery_id,
                                http |-> 200, motoboy_id |-> user_id,
                                pin_confirmacao |-> pin.pin_confirmacao]

\* validate_delivery_pin(delivery_id, entered_pin)
ValidateDeliveryPin(delivery_id, entered_pin) ==
    /\ Remember
    /\ UNCHANGED <<users, procs>>
    /\ IF ~Found(deliveries, delivery_id)
       THEN /\ response' = [op |-> "validate", id |-> delivery_id,
                            entered |-> entered_pin,
                            result |-> [success |-> FALSE,
                                        code |-> "DELIVERY_NOT_FOUND"]]
            /\ UNCHANGED deliveries
       ELSE LET doc == deliveries[delivery_id]
            IN  /\ deliveries' =
                     [deliveries EXCEPT ![delivery_id] =
                        ApplySet(@, ValidateUpdate(doc, entered_pin))]
                /\ response' = [op |-> "validate", id |-> delivery_id,
                                entered |-> entered_pin,
                                result |-> ValidateResult(doc, entered_pin)]

\* PUT /api/deliveries/{delivery_id}/status
UpdateDeliveryStatus(user_id, delivery_id, new_status) ==
    /\ Remember
    /\ UNCHANGED procs
    /\ IF new_status \notin allowed_statuses
       THEN /\ response' = [op |-> "status", id |-> delivery_id,
                                user |-> user_id,
                            new_status |-> new_status, http |-> 400,
                            detail |-> "Invalid status"]
            /\ UNCHANGED <<deliveries, users>>
       ELSE IF ~Found(deliveries, delivery_id)
       THEN /\ response' = [op |-> "status", id |-> delivery_id,
                                user |-> user_id,
                            new_status |-> new_status, http |-> 404,
                            detail |-> "Delivery not found"]
            /\ UNCHANGED <<deliveries, users>>
       ELSE
       LET doc == deliveries[delivery_id]
       IN  IF NotYourDelivery(users, user_id, doc)
           THEN /\ response' = [op |-> "status", id |-> delivery_id,
                                user |-> user_id,
                                new_status |-> new_status, http |-> 403,
                                detail |-> "Not your delivery"]
                /\ UNCHANGED <<deliveries, users>>
           ELSE IF new_status = "delivered" /\ DeliveredGate(doc) # "ok"
           THEN /\ response' = [op |-> "status", id |-> delivery_id,
                                user |-> user_id,
                                new_status |-> new_status, http |-> 400,
                                detail |-> DeliveredGate(doc)]
                /\ UNCHANGED <<deliveries, users>>
           ELSE /\ new_status = "delivered" /\ doc.motoboy_id \in Couriers
                     => users[doc.motoboy_id].total_deliveries < MaxCompleted
                /\ users' =
                     IF new_status = "delivered"
                     THEN IncUser(
                            IncUser(users, doc.motoboy_id, "total_deliveries", 1),
                            doc.motoboy_id, "wallet_balance",
                            doc.motoboy_earnings + doc.waiting_fee)
                     ELSE users
                /\ deliveries' =
                     [deliveries EXCEPT ![delivery_id] =
                        ApplySet(@, [status |-> new_status])]
                /\ response' = [op |-> "status", id |-> delivery_id,
                                user |-> user_id,
                                new_status |-> new_status, http |-> 200,
                                detail |-> "Status atualizado"]

EnteredPins ==
    LET codes == { generate_delivery_pin(seed).pin_confirmacao : seed \in Seeds }
    IN  codes \cup { Lower(c) : c \in codes } \cup { <<"X", "X", "X", "X">> }

StatusInputs == allowed_statuses \cup {"pending"}

Next ==
    \/ \E u \in UserIds, city \in Cities, pickup \in Positions,
          drop \in Positions, seed \in Seeds :
         CreateDelivery(u, city, pickup, drop, seed)
    \/ \E u \in UserIds, d \in DeliveryIds, seed \in Seeds :
         AcceptDelivery(u, d, seed)
    \/ \E d \in DeliveryIds, e \in EnteredPins : ValidateDeliveryPin(d, e)
    \/ \E u \in UserIds, d \in DeliveryIds, s \in StatusInputs :
         UpdateDeliveryStatus(u, d, s)

Spec == Init /\ [][Next]_vars

-----------------------------------------------------------------------------
(* Reading a step: which handler ran, on which delivery.  `prev` holds the
   collections as the step found them, the variables hold what it left. *)

\* the PIN fields of delivery d as the step found them
Blocked(d) == prev.deliveries[d].pin_bloqueado
Validated(d) == prev.deliveries[d].pin_validado_com_sucesso
Attempts(d) == prev.deliveries[d].pin_tentativas

\* the step just taken was validate_delivery_pin on delivery d
ValidateStep(d) == response.op = "validate" /\ response.id = d

\* the step just taken was accept_delivery on delivery d
AcceptStep(d) == response.op = "accept" /\ response.id = d

\* the step just taken asked for status `delivered` on delivery d
DeliveredStep(d) ==
    /\ response.op = "status"
    /\ response.id = d
    /\ response.new_status = "delivered"

\* equality of two codes up to the case of their letters
SameCodeIgnoringCase(a, b) ==
    /\ Len(a) = Len(b)
    /\ \A i \in 1..Len(a) : LowerChar(a[i]) = LowerChar(b[i])

\* the PIN sub-record of a document
PinRecord(doc) ==
    << doc.pin_completo, doc.pin_confirmacao, doc.pin_tentativas,
       doc.pin_bloqueado, doc.pin_validado_com_sucesso, doc.pin_validado_em >>

-----------------------------------------------------------------------------
(* C1: once a delivery's PIN is blocked (which the 3rd wrong attempt does:
   attempts >= 3 implies blocked) it stays blocked in every later state, and
   every later validate on that delivery returns PIN_BLOCKED whatever code is
   entered, the correct confirm_code included. *)
C1_BlockedIsPermanent ==
    \A d \in DOMAIN prev.deliveries :
      /\ Attempts(d) >= MaxAttempts => Blocked(d)
      /\ Blocked(d) =>
           /\ deliveries[d].pin_bloqueado
           /\ ValidateStep(d) => response.result.code = "PIN_BLOCKED"

\* a blocked PIN has just refused its own correct code
C1_Witness ==
    /\ response.op = "validate"
    /\ response.id \in DOMAIN deliveries
    /\ response.result.code = "PIN_BLOCKED"
    /\ "attempts" \notin DOMAIN response.result
    /\ deliveries[response.id].pin_tentativas = MaxAttempts
    /\ response.entered = deliveries[response.id].pin_confirmacao

(* C2: asking for status `delivered` on a delivery that has a PIN which is
   not validated is refused: the caller who passes the ownership check gets
   HTTP 400 (another courier is turned away with 403 before the gate), and
   the delivery and every wallet are left as they were. *)
C2_DeliveredNeedsValidation ==
    \A d \in DOMAIN prev.deliveries :
      (HasPin(prev.deliveries[d]) /\ ~Validated(d) /\ DeliveredStep(d)) =>
         /\ response.http # 200
         /\ ~NotYourDelivery(prev.users, response.user, prev.deliveries[d])
              => response.http = 400
         /\ deliveries = prev.deliveries
         /\ users = prev.users

\* the owner of a delivery with an unvalidated PIN was just refused
C2_Witness ==
    /\ response.op = "status"
    /\ response.new_status = "delivered"
    /\ response.http = 400
    /\ response.id \in DOMAIN deliveries
    /\ HasPin(deliveries[response.id])
    /\ ~deliveries[response.id].pin_validado_com_sucesso
    /\ ~deliveries[response.id].pin_bloqueado
    /\ deliveries[response.id].motoboy_id = response.user

(* C3: once validated is true, a request for status `delivered` by a caller
   who passes the ownership check is accepted, whatever validate attempts
   were made after the successful one. *)
C3_ValidatedPermitsDelivered ==
    \A d \in DOMAIN prev.deliveries :
      ( /\ Validated(d)
        /\ DeliveredStep(d)
        /\ ~NotYourDelivery(prev.users, response.user, prev.deliveries[d]) )
      => response.http = 200

(* C4: validated goes from false to true only in a validate call on that
   delivery made while it is not blocked, with a code equal to confirm_code
   up to case; that call sets validated_at, resets attempts to 0 and returns
   PIN_VALID.  A new delivery starts not validated. *)
C4_ValidatedOnlyByCorrectCode ==
    \A d \in DOMAIN deliveries :
      IF d \in DOMAIN prev.deliveries
      THEN (~Validated(d) /\ deliveries[d].pin_validado_com_sucesso) =>
             /\ ValidateStep(d)
             /\ ~Blocked(d)
             /\ HasPin(prev.deliveries[d])
             /\ SameCodeIgnoringCase(response.entered,
                                     prev.deliveries[d].pin_confirmacao)
             /\ deliveries[d].pin_validado_em = "now"
             /\ deliveries[d].pin_tentativas = 0
             /\ response.result.code = "PIN_VALID"
      ELSE ~deliveries[d].pin_validado_com_sucesso

\* a lower-case spelling of the code has validated a PIN after a wrong attempt
C4_Witness ==
    /\ response.op = "validate"
    /\ response.id \in DOMAIN deliveries
    /\ response.result.code = "PIN_VALID"
    /\ response.entered # deliveries[response.id].pin_confirmacao
    /\ deliveries[response.id].pin_validado_com_sucesso
    /\ deliveries[response.id].pin_tentativas = 0

(* C5: attempts never decreases except in a successful validation, which
   resets it to 0; a wrong validate on a PIN that is active and not blocked
   increases it by exactly 1. *)
C5_AttemptsMonotonic ==
    \A d \in DOMAIN prev.deliveries :
      /\ deliveries[d].pin_tentativas < Attempts(d) =>
           /\ ValidateStep(d)
           /\ response.result.code = "PIN_VALID"
           /\ deliveries[d].pin_tentativas = 0
      /\ ( /\ ValidateStep(d)
           /\ HasPin(prev.deliveries[d])
           /\ ~Blocked(d)
           /\ ~SameCodeIgnoringCase(response.entered,
                                    prev.deliveries[d].pin_confirmacao) )
         => deliveries[d].pin_tentativas = Attempts(d) + 1

\* a wrong attempt counted after a successful validation had reset the counter
C5_Witness ==
    /\ response.op = "validate"
    /\ response.id \in DOMAIN deliveries
    /\ response.result.code = "PIN_INCORRECT"
    /\ deliveries[response.id].pin_validado_com_sucesso
    /\ deliveries[response.id].pin_tentativas = 2

(* C6: a wrong validate on an active, not blocked PIN whose counter is a
   returns PIN_INCORRECT with attempts = a+1 and remaining = 3-(a+1) when
   a+1 < 3, and returns PIN_BLOCKED and sets blocked when a+1 >= 3. *)
C6_WrongAttemptOutcome ==
    \A d \in DOMAIN prev.deliveries :
      ( /\ ValidateStep(d)
        /\ HasPin(prev.deliveries[d])
        /\ ~Blocked(d)
        /\ ~SameCodeIgnoringCase(response.entered,
                                 prev.deliveries[d].pin_confirmacao) )
      => LET a == Attempts(d)
             r == response.result
         IN  /\ ~r.success
             /\ r.attempts = a + 1
             /\ IF a + 1 < 3
                THEN /\ r.code = "PIN_INCORRECT"
                     /\ r.remaining = 3 - (a + 1)
                     /\ ~deliveries[d].pin_bloqueado
                ELSE /\ r.code = "PIN_BLOCKED"
                     /\ deliveries[d].pin_bloqueado

\* the third wrong attempt has just blocked the PIN
C6_Witness ==
    /\ response.op = "validate"
    /\ response.id \in DOMAIN deliveries
    /\ response.result.code = "PIN_BLOCKED"
    /\ "attempts" \in DOMAIN response.result
    /\ response.result.attempts = 3
    /\ deliveries[response.id].pin_bloqueado

(* C7: validate on a blocked PIN returns PIN_BLOCKED and validate on a
   delivery without a PIN returns NO_PIN, the blocked check coming first; in
   both cases the delivery's PIN sub-record is left unchanged. *)
C7_RejectionsLeaveRecord ==
    \A d \in DOMAIN prev.deliveries :
      ValidateStep(d) =>
        /\ Blocked(d) =>
             /\ response.result.code = "PIN_BLOCKED"
             /\ PinRecord(deliveries[d]) = PinRecord(prev.deliveries[d])
        /\ (~Blocked(d) /\ ~HasPin(prev.deliveries[d])) =>
             /\ response.result.code = "NO_PIN"
             /\ PinRecord(deliveries[d]) = PinRecord(prev.deliveries[d])

\* validate has just answered NO_PIN for a delivery that has no PIN
C7_Witness ==
    /\ response.op = "validate"
    /\ response.id \in DOMAIN deliveries
    /\ response.result.code = "NO_PIN"
    /\ deliveries[response.id].pin_confirmacao = NoPin

(* C8: every delivery that has a PIN has a full_code of exactly 8 characters
   and a confirm_code of exactly 4 characters, the last 4 of full_code; when
   the PIN is generated attempts is 0 and blocked is false. *)
C8_PinShape ==
    \A d \in DOMAIN deliveries :
      LET doc == deliveries[d]
          generated == \/ d \notin DOMAIN prev.deliveries
                       \/ ~HasPin(prev.deliveries[d])
      IN  HasPin(doc) =>
            /\ Len(doc.pin_completo) = 8
            /\ Len(doc.pin_confirmacao) = 4
            /\ \A i \in 1..4 : doc.pin_confirmacao[i] = doc.pin_completo[4 + i]
            /\ generated => (doc.pin_tentativas = 0 /\ ~doc.pin_bloqueado)

\* an accept has just generated a PIN
C8_Witness ==
    /\ response.op = "accept"
    /\ response.http = 200
    /\ HasPin(deliveries[response.id])
    /\ deliveries[response.id].pin_tentativas = 0

(* C9: a PIN is generated at most once per delivery: once a delivery has a
   PIN its full_code, confirm_code and courier never change, and every accept
   on it fails and leaves attempts and blocked as they were. *)
C9_PinGeneratedOnce ==
    \A d \in DOMAIN prev.deliveries :
      HasPin(prev.deliveries[d]) =>
        /\ deliveries[d].pin_completo = prev.deliveries[d].pin_completo
        /\ deliveries[d].pin_confirmacao = prev.deliveries[d].pin_confirmacao
        /\ deliveries[d].motoboy_id = prev.deliveries[d].motoboy_id
        /\ AcceptStep(d) =>
             /\ response.http # 200
             /\ deliveries[d].pin_tentativas = Attempts(d)
             /\ deliveries[d].pin_bloqueado = Blocked(d)

\* the courier of a delivery that has a PIN and counted attempts was refused
\* a second accept
C9_Witness ==
    /\ response.op = "accept"
    /\ response.http = 404
    /\ response.id \in DOMAIN deliveries
    /\ HasPin(deliveries[response.id])
    /\ deliveries[response.id].status = "matched"
    /\ deliveries[response.id].pin_tentativas > 0

-----------------------------------------------------------------------------
(* create_delivery and accept_delivery, one database operation per step.
   procs[w] is the request worker w is serving: its position and its locals. *)

SetProc(w, rec) == procs' = [procs EXCEPT ![w] = rec]

\* create_delivery up to the balance check: users_collection.find_one
CreateBegin(w, user_id, city, pickup, drop) ==
    /\ procs[w].pc = "idle"
    /\ Remember
    /\ Len(deliveries) < MaxDeliveries
    /\ UNCHANGED <<deliveries, users>>
    /\ LET pricing == calculate_delivery_price(
                         calculate_distance(<<pickup>>, <<drop>>))
       IN  IF users[user_id].user_type # "lojista"
           THEN /\ response' = [op |-> "create", worker |-> w, http |-> 403]
                /\ UNCHANGED procs
           ELSE IF users[user_id].loja_wallet_balance < pricing.total_price
           THEN /\ response' = [op |-> "create", worker |-> w, http |-> 400]
                /\ UNCHANGED procs
           ELSE /\ SetProc(w, [pc |-> "create_insert", user_id |-> user_id,
                               city |-> city, pickup |-> pickup,
                               pricing |-> pricing])
                /\ UNCHANGED response

\* deliveries_collection.insert_one(delivery)
CreateInsert(w) ==
    /\ procs[w].pc = "create_insert"
    /\ Remember
    /\ Len(deliveries) < MaxDeliveries
    /\ deliveries' =
         Append(deliveries, Delivery(procs[w].user_id, procs[w].pricing))
    /\ SetProc(w, [procs[w] EXCEPT !.pc = "create_find"] @@
                  [id |-> Len(deliveries) + 1])
    /\ UNCHANGED <<users, response>>

\* best_match = find_best_motoboy(delivery), then generate_delivery_pin()
CreateFindBest(w, seed) ==
    /\ procs[w].pc = "create_find"
    /\ Remember
    /\ UNCHANGED <<deliveries, users>>
    /\ LET best_match ==
             find_best_motoboy(users, procs[w].city, <<procs[w].pickup>>)
       IN  IF best_match = NoneVal
           THEN /\ SetProc(w, Idle)
                /\ response' = [op |-> "create", worker |-> w, http |-> 200,
                                id |-> procs[w].id,
                                matched_motoboy |-> NoneVal]
           ELSE /\ SetProc(w, [procs[w] EXCEPT !.pc = "create_update"] @@
                              [best_match |-> best_match,
                               pin |-> generate_delivery_pin(seed)])
                /\ UNCHANGED response

\* deliveries_collection.update_one({"id": delivery["id"]}, {"$set": ...})
CreateUpdate(w) ==
    /\ procs[w].pc = "create_update"
    /\ Remember
    /\ deliveries' =
         [deliveries EXCEPT ![procs[w].id] =
            ApplySet(@, MatchSet(procs[w].best_match, procs[w].pin))]
    /\ SetProc(w, [procs[w] EXCEPT !.pc = "create_debit"])
    /\ UNCHANGED <<users, response>>

\* users_collection.update_one({"id": user_id}, {"$inc": ...}), and the return
CreateDebit(w) ==
    /\ procs[w].pc = "create_debit"
    /\ Remember
    /\ users' = IncUser(users, procs[w].user_id, "loja_wallet_balance",
                        0 - procs[w].pricing.total_price)
    /\ SetProc(w, Idle)
    /\ response' = [op |-> "create", worker |-> w, http |-> 200,
                    id |-> procs[w].id,
                    matched_motoboy |-> procs[w].best_match,
                    pin_confirmacao |-> procs[w].pin.pin_confirmacao]
    /\ UNCHANGED deliveries

\* accept_delivery up to deliveries_collection.find_one with the filter
AcceptBegin(w, user_id, delivery_id) ==
    /\ procs[w].pc = "idle"
    /\ Remember
    /\ UNCHANGED <<deliveries, users>>
    /\ IF users[user_id].user_type # "motoboy"
       THEN /\ response' = [op |-> "accept", worker |-> w,
                            id |-> delivery_id, http |-> 403]
            /\ UNCHANGED procs
       ELSE IF ~(Found(deliveries, delivery_id)
                 /\ AcceptFilter(deliveries[delivery_id], user_id))
       THEN /\ response' = [op |-> "accept", worker |-> w,
                            id |-> delivery_id, http |-> 404]
            /\ UNCHANGED procs
       ELSE /\ SetProc(w, [pc |-> "accept_user", motoboy_id |-> user_id,
                           id |-> delivery_id])
            /\ UNCHANGED response

\* users_collection.find_one (users are never deleted: it is found), then
\* generate_delivery_pin()
AcceptFindUser(w, seed) ==
    /\ procs[w].pc = "accept_user"
    /\ Remember
    /\ procs[w].motoboy_id \in DOMAIN users
    /\ SetProc(w, [procs[w] EXCEPT !.pc = "accept_update"] @@
                  [pin |-> generate_delivery_pin(seed)])
    /\ UNCHANGED <<deliveries, users, response>>

\* deliveries_collection.update_one(filter, {"$set": ...}); modified_count
AcceptUpdate(w) ==
    /\ procs[w].pc = "accept_update"
    /\ Remember
    /\ UNCHANGED users
    /\ IF AcceptFilter(deliveries[procs[w].id], procs[w].motoboy_id)
       THEN /\ deliveries' =
                 [deliveries EXCEPT ![procs[w].id] =
                    ApplySet(@, AcceptSet(procs[w].motoboy_id, procs[w].pin))]
            /\ SetProc(w, [procs[w] EXCEPT !.pc = "accept_available"])
            /\ UNCHANGED response
       ELSE /\ UNCHANGED deliveries
            /\ SetProc(w, Idle)
            /\ response' = [op |-> "accept", worker |-> w,
                            id |-> procs[w].id, http |-> 409]

\* users_collection.update_one: is_available = False, and the return
AcceptAvailable(w) ==
    /\ procs[w].pc = "accept_available"
    /\ Remember
    /\ users' = SetUser(users, procs[w].motoboy_id, "is_available", FALSE)
    /\ SetProc(w, Idle)
    /\ response' = [op |-> "accept", worker |-> w, id |-> procs[w].id,
                    http |-> 200, motoboy_id |-> procs[w].motoboy_id,
                    pin_confirmacao |-> procs[w].pin.pin_confirmacao]
    /\ UNCHANGED deliveries

NextConc ==
    \/ \E w \in Workers, u \in UserIds, city \in Cities,
          pickup \in Positions, drop \in Positions :
         CreateBegin(w, u, city, pickup, drop)
    \/ \E w \in Workers : CreateInsert(w)
    \/ \E w \in Workers, seed \in Seeds : CreateFindBest(w, seed)
    \/ \E w \in Workers : CreateUpdate(w)
    \/ \E w \in Workers : CreateDebit(w)
    \/ \E w \in Workers, u \in UserIds, d \in DeliveryIds :
         AcceptBegin(w, u, d)
    \/ \E w \in Workers, seed \in Seeds : AcceptFindUser(w, seed)
    \/ \E w \in Workers : AcceptUpdate(w)
    \/ \E w \in Workers : AcceptAvailable(w)

SpecConc == Init /\ [][NextConc]_vars

-----------------------------------------------------------------------------
(* C10: whatever the interleaving of accept calls and of create_delivery's
   auto-match on one delivery, at most one transition out of pending
   succeeds: once a delivery has left pending, its courier and its PIN are
   never overwritten. *)
C10_AtMostOneMatch ==
    \A d \in DOMAIN prev.deliveries :
      prev.deliveries[d].status # "pending" =>
        /\ deliveries[d].motoboy_id = prev.deliveries[d].motoboy_id
        /\ deliveries[d].pin_completo = prev.deliveries[d].pin_completo
        /\ deliveries[d].pin_confirmacao = prev.deliveries[d].pin_confirmacao

-----------------------------------------------------------------------------
(* validate_delivery_pin with more than one worker: the call is a find_one
   followed by an update_one whose $set is computed from the document read;
   other workers' steps may come between the two. *)

\* find_one and the three early returns
ValidateFind(w, delivery_id, entered_pin) ==
    /\ procs[w].pc = "idle"
    /\ Remember
    /\ UNCHANGED <<deliveries, users>>
    /\ IF ~Found(deliveries, delivery_id)
       THEN /\ response' = [op |-> "validate", id |-> delivery_id,
                            entered |-> entered_pin,
                            result |-> [success |-> FALSE,
                                        code |-> "DELIVERY_NOT_FOUND"]]
            /\ UNCHANGED procs
       ELSE LET doc == deliveries[delivery_id]
            IN  IF doc.pin_bloqueado \/ ~HasPin(doc)
                THEN /\ response' = [op |-> "validate", id |-> delivery_id,
                                     entered |-> entered_pin,
                                     result |-> ValidateResult(doc, entered_pin)]
                     /\ UNCHANGED procs
                ELSE /\ response' = [op |-> "none"]
                     /\ SetProc(w, [pc |-> "validate_update",
                                    id |-> delivery_id,
                                    entered |-> entered_pin,
                                    delivery |-> doc])

\* the comparison, the update_one built from the document read, the return
ValidateWrite(w) ==
    /\ procs[w].pc = "validate_update"
    /\ Remember
    /\ LET doc == procs[w].delivery
           entered_pin == procs[w].entered
       IN  /\ deliveries' =
                [deliveries EXCEPT ![procs[w].id] =
                   ApplySet(@, ValidateUpdate(doc, entered_pin))]
           /\ response' = [op |-> "validate", id |-> procs[w].id,
                           entered |-> entered_pin,
                           result |-> ValidateResult(doc, entered_pin)]
    /\ SetProc(w, Idle)
    /\ UNCHANGED users

NextVal ==
    \/ \E u \in UserIds, city \in Cities, pickup \in Positions,
          drop \in Positions, seed \in Seeds :
         CreateDelivery(u, city, pickup, drop, seed)
    \/ \E w \in Workers, d \in DeliveryIds, e \in EnteredPins :
         ValidateFind(w, d, e)
    \/ \E w \in Workers : ValidateWrite(w)

SpecVal == Init /\ [][NextVal]_vars

-----------------------------------------------------------------------------
(* C11: whatever the interleaving of validate calls on one delivery, the
   wrong attempts are counted one after the other: every completed wrong
   validation finds the PIN not blocked and moves the stored counter from a
   to a + 1 <= 3, so that n of them in a row leave attempts = min(n, 3) and
   no 4th wrong code is evaluated. *)
C11_AttemptsSerialized ==
    \A d \in DOMAIN prev.deliveries :
      (ValidateStep(d) /\ "attempts" \in DOMAIN response.result) =>
        /\ ~Blocked(d)
        /\ deliveries[d].pin_tentativas = Attempts(d) + 1
        /\ deliveries[d].pin_tentativas <= MaxAttempts

-----------------------------------------------------------------------------
(* C12: a delivery's status only moves along pending -> matched ->
   pickup_confirmed -> in_transit -> (waiting) -> delivered | cancelled |
   client_not_found: no step moves it backwards, takes it from pending to a
   courier-side status, or out of a terminal status. *)

TerminalStatuses == {"delivered", "cancelled", "client_not_found"}

\* the place of a status in the progression
StatusRank(status) ==
    CASE status = "pending" -> 0
      [] status = "matched" -> 1
      [] status = "pickup_confirmed" -> 2
      [] status = "in_transit" -> 3
      [] status = "waiting" -> 4
      [] status \in TerminalStatuses -> 5

C12_StatusProgression ==
    \A d \in DOMAIN prev.deliveries :
      LET from == prev.deliveries[d].status
          to == deliveries[d].status
      IN  to # from =>
            /\ from \notin TerminalStatuses
            /\ StatusRank(to) > StatusRank(from)
            /\ from = "pending" => to \in {"matched", "cancelled"}

-----------------------------------------------------------------------------
(* find_best_motoboy as a function of the couriers registered: the users
   collection is drawn from every combination of base city, availability,
   last reported location (or none) and ranking score *)

MatchLocations == { << >>, <<0>>, <<3>>, <<12>>, <<30>> }

MatchRankings == {90, DefaultRanking}

MatchPickups == {0, 3}

MotoboyWith(city, available, location, ranking) ==
    [ Motoboy(city, location) EXCEPT !.is_available = available,
                                     !.ranking_score = ranking ]

InitMatch ==
    /\ deliveries = << >>
    /\ \E c1 \in Cities, c2 \in Cities, a1 \in BOOLEAN, a2 \in BOOLEAN,
          l1 \in MatchLocations, l2 \in MatchLocations,
          r1 \in MatchRankings, r2 \in MatchRankings :
         users = [u \in UserIds |->
                    IF u = "m1" THEN MotoboyWith(c1, a1, l1, r1)
                    ELSE IF u = "m2" THEN MotoboyWith(c2, a2, l2, r2)
                    ELSE Lojista(InitialLojaBalance)]
    /\ response = [op |-> "none"]
    /\ prev = [deliveries |-> << >>, users |-> users]
    /\ procs = [w \in Workers |-> Idle]

\* best_match = find_best_motoboy(delivery)
FindBestMotoboy(city, pickup) ==
    /\ Remember
    /\ response' = [op |-> "match", city |-> city, pickup |-> pickup,
                    best_match |-> find_best_motoboy(users, city, <<pickup>>)]
    /\ UNCHANGED <<deliveries, users, procs>>

NextMatch ==
    \E city \in Cities, pickup \in MatchPickups : FindBestMotoboy(city, pickup)

SpecMatch == InitMatch /\ [][NextMatch]_vars

\* the step just taken was a call of the matcher
MatchStep == response.op = "match"

\* courier m could be chosen for a pickup in the city asked for
Eligible(m) ==
    /\ users[m].base_city = response.city
    /\ users[m].is_available
    /\ users[m].current_location # << >>

distance_to_pickup(m) ==
    calculate_distance(users[m].current_location, <<response.pickup>>)

-----------------------------------------------------------------------------
(* C13: the courier the matcher returns is never one whose base city is not
   the pickup city, whose available flag is false, or who has no current
   location, whatever couriers are registered. *)
C13_MatcherFilters ==
    (MatchStep /\ response.best_match # NoneVal) => Eligible(response.best_match)

\* the matcher has passed over a nearer, better ranked courier of another city
C13_Witness ==
    /\ MatchStep
    /\ response.best_match = "m2"
    /\ users["m1"].base_city # response.city
    /\ users["m1"].is_available
    /\ users["m1"].current_location # << >>
    /\ users["m1"].ranking_score > users["m2"].ranking_score
    /\ distance_to_pickup("m1") < distance_to_pickup("m2")

(* C14: of two eligible couriers with the same ranking score the matcher
   returns the one nearer to the pickup, whatever the two distances and
   whichever of the two the query returns first. *)
C14_NearerPreferred ==
    \A a \in Couriers, b \in Couriers :
      ( /\ MatchStep
        /\ Eligible(a) /\ Eligible(b)
        /\ users[a].ranking_score = users[b].ranking_score
        /\ distance_to_pickup(a) < distance_to_pickup(b) )
      => response.best_match = a

-----------------------------------------------------------------------------
(* create_delivery over any registered couriers *)

NextCreate ==
    \/ \E city \in Cities, pickup \in MatchPickups :
         FindBestMotoboy(city, pickup)
    \/ \E u \in UserIds, city \in Cities, pickup \in MatchPickups,
          drop \in MatchPickups, seed \in Seeds :
         CreateDelivery(u, city, pickup, drop, seed)

SpecCreate == InitMatch /\ [][NextCreate]_vars

\* no courier of collection us can be matched to a pickup in city
NoEligible(us, city) ==
    \A m \in Couriers :
      ~( /\ us[m].base_city = city
         /\ us[m].is_available
         /\ us[m].current_location # << >> )

\* the step just taken was a create_delivery that inserted delivery d
CreateStep(d) ==
    /\ response.op = "create"
    /\ response.http = 200
    /\ response.id = d

(* C15: when no courier is eligible the matcher returns None, and
   create_delivery then answers normally and leaves the new delivery in
   status pending, without courier and without PIN, and leaves the shop's
   balance (and every other user) as it was. *)
C15_NoMatchLeavesPending ==
    /\ (MatchStep /\ NoEligible(users, response.city))
         => response.best_match = NoneVal
    /\ \A d \in DOMAIN deliveries :
         (CreateStep(d) /\ NoEligible(prev.users, response.city)) =>
           /\ d \notin DOMAIN prev.deliveries
           /\ response.matched_motoboy = NoneVal
           /\ deliveries[d].status = "pending"
           /\ deliveries[d].motoboy_id = NoneVal
           /\ ~HasPin(deliveries[d])
           /\ deliveries[d].pin_completo = NoPin
           /\ users = prev.users

\* a delivery was created and left pending although an available courier
\* with a location is registered in the other city
C15_Witness ==
    /\ response.op = "create"
    /\ response.http = 200
    /\ response.matched_motoboy = NoneVal
    /\ deliveries[response.id].status = "pending"
    /\ \E m \in Couriers :
         /\ users[m].is_available
         /\ users[m].current_location # << >>
         /\ users[m].base_city # response.city

-----------------------------------------------------------------------------
(* C16: whenever a delivery becomes matched, whether create_delivery matched
   it or a courier accepted it while pending, that step takes the delivery's
   total price from the balance of the shop that pays for it, once. *)
C16_MatchDebitsShop ==
    \A d \in DOMAIN deliveries :
      LET was_pending == \/ d \notin DOMAIN prev.deliveries
                         \/ prev.deliveries[d].status = "pending"
          payer == deliveries[d].lojista_id
      IN  (was_pending /\ deliveries[d].status = "matched") =>
            users[payer].loja_wallet_balance =
              prev.users[payer].loja_wallet_balance - deliveries[d].total_price

-----------------------------------------------------------------------------
(* SecurityAnalyzer.analyze_behavioral_risk(motoboy_data).

   Scores are fixed-point: a factor score s is the integer s * 10^6, the
   aggregate score p is p * 10^6.  A location is a position in metres along a
   line, a timestamp of the location history a whole number of hours, a
   timestamp of a delivery a whole number of minutes. *)

ScoreOne == 1000000

Min2(a, b) == IF a <= b THEN a ELSE b

RECURSIVE SeqSum(_)
SeqSum(q) == IF q = << >> THEN 0 ELSE Head(q) + SeqSum(Tail(q))

SetMax(S) == CHOOSE x \in S : \A y \in S : y <= x

\* q[-n:]
LastN(q, n) == IF Len(q) <= n THEN q ELSE SubSeq(q, Len(q) - n + 1, Len(q))

\* self.risk_thresholds, and the literal thresholds of the four analyses
risk_thresholds ==
    [ carousel_pattern_tenths |-> 3,      \* acceptance rate 0.3
      speed_anomaly |-> 80000,            \* 80 km/h, in metres per hour
      time_anomaly |-> 2,                 \* standard deviations
      impossible_speed |-> 150000,        \* 150 km/h, in metres per hour
      carousel_min_deliveries |-> 10,
      carousel_window |-> 30,
      speed_min_points |-> 5,
      time_min_completed |-> 5,
      location_min_points |-> 3 ]

\* mutant: the acceptance rate is judged on any number of deliveries
analyze_carousel_patternNoMinimum(motoboy_data) ==
    LET ds == motoboy_data.delivery_history
        recent_deliveries == LastN(ds, risk_thresholds.carousel_window)
        cancelled_count ==
          Cardinality({ i \in 1..Len(recent_deliveries) :
                          recent_deliveries[i].status = "cancelled" })
        low == (Len(recent_deliveries) - cancelled_count) * 10
                 < risk_thresholds.carousel_pattern_tenths
                     * Len(recent_deliveries)
    IN  IF low THEN ScoreOne ELSE 0

\* _analyze_carousel_pattern: the factor's score
analyze_carousel_pattern(motoboy_data) ==
    LET ds == motoboy_data.delivery_history
    IN  IF Len(ds) < risk_thresholds.carousel_min_deliveries THEN 0
        ELSE LET recent_deliveries == LastN(ds, risk_thresholds.carousel_window)
                 cancelled_count ==
                   Cardinality({ i \in 1..Len(recent_deliveries) :
                                   recent_deliveries[i].status = "cancelled" })
                 \* acceptance_rate < 0.3, cross-multiplied
                 low == (Len(recent_deliveries) - cancelled_count) * 10
                          < risk_thresholds.carousel_pattern_tenths
                              * Len(recent_deliveries)
             IN  IF low THEN ScoreOne ELSE 0

\* the steps of a location history made in a positive time
Movements(lh) ==
    { i \in 2..Len(lh) : lh[i].timestamp - lh[i-1].timestamp > 0 }

SegmentDistance(lh, i) == Abs(lh[i].pos - lh[i-1].pos)

SegmentHours(lh, i) == lh[i].timestamp - lh[i-1].timestamp

\* mutant: the speed score is not capped at 1.0
analyze_speed_patternsUncapped(motoboy_data) ==
    LET lh == motoboy_data.location_history
        speeds == { SegmentDistance(lh, i) \div SegmentHours(lh, i) :
                      i \in Movements(lh) }
    IN  IF Len(lh) < risk_thresholds.speed_min_points THEN 0
        ELSE IF speeds = {} THEN 0
        ELSE LET max_speed == SetMax(speeds)
             IN  IF max_speed > risk_thresholds.speed_anomaly
                 THEN max_speed * 10
                 ELSE 0

\* _analyze_speed_patterns: speeds in metres per hour; score = max_speed / 100
\* with max_speed in km/h, that is max_speed * 10 in millionths
analyze_speed_patterns(motoboy_data) ==
    LET lh == motoboy_data.location_history
        speeds == { SegmentDistance(lh, i) \div SegmentHours(lh, i) :
                      i \in Movements(lh) }
    IN  IF Len(lh) < risk_thresholds.speed_min_points THEN 0
        ELSE IF speeds = {} THEN 0
        ELSE LET max_speed == SetMax(speeds)
             IN  IF max_speed > risk_thresholds.speed_anomaly
                 THEN Min2(max_speed * 10, ScoreOne)
                 ELSE 0

\* _analyze_time_patterns: a timestamp is << >> (missing) or <<minute>>,
\* durations are in minutes.  |t - avg| > 2 * std is
\* compared exactly, both sides squared and multiplied by n^2
analyze_time_patterns(motoboy_data) ==
    LET ds == motoboy_data.delivery_history
        completed_deliveries == SelectSeq(ds, LAMBDA d : d.status = "delivered")
        timed == SelectSeq(completed_deliveries,
                           LAMBDA d : /\ d.pickup_confirmed_at # << >>
                                      /\ d.delivered_at # << >>)
        delivery_times ==
          [ i \in 1..Len(timed) |->
              timed[i].delivered_at[1] - timed[i].pickup_confirmed_at[1] ]
        n == Len(delivery_times)
        total == SeqSum(delivery_times)
        squares == SeqSum([ i \in 1..n |-> delivery_times[i] * delivery_times[i] ])
        k == risk_thresholds.time_anomaly
        anomalous_deliveries ==
          { i \in 1..n :
              (n * delivery_times[i] - total) * (n * delivery_times[i] - total)
                > k * k * (n * squares - total * total) }
        anomalies == Cardinality(anomalous_deliveries)
    IN  IF Len(completed_deliveries) < risk_thresholds.time_min_completed THEN 0
        ELSE IF n = 0 THEN 0
        ELSE IF anomalies * 5 > n            \* anomaly_rate > 0.2
        THEN (anomalies * ScoreOne) \div n
        ELSE 0

\* _get_city_boundaries: the box of a served city as an interval of the
\* line, the empty record for any other city
get_city_boundaries(city) ==
    IF city \in Cities THEN [min |-> 0, max |-> 11000] ELSE NoUpdate

\* _is_within_city_boundaries
is_within_city_boundaries(location, boundaries) ==
    IF boundaries = NoUpdate THEN TRUE
    ELSE boundaries.min <= location.pos /\ location.pos <= boundaries.max

\* _analyze_location_consistency
analyze_location_consistency(motoboy_data) ==
    LET lh == motoboy_data.location_history
        city_boundaries == get_city_boundaries(motoboy_data.base_city)
        total_movements == Cardinality(Movements(lh))
        impossible_jumps ==
          Cardinality({ i \in Movements(lh) :
                          SegmentDistance(lh, i) >
                            risk_thresholds.impossible_speed * SegmentHours(lh, i) })
        out_of_bounds_count ==
          Cardinality({ i \in 2..Len(lh) :
                          ~is_within_city_boundaries(lh[i], city_boundaries) })
        \* jump_rate + out_of_bounds_rate
        total_inconsistency ==
          (impossible_jumps * ScoreOne) \div total_movements
            + (out_of_bounds_count * ScoreOne) \div Len(lh)
        \* total_inconsistency > 0.1, cross-multiplied
        inconsistent ==
          10 * (impossible_jumps * Len(lh) + out_of_bounds_count * total_movements)
            > total_movements * Len(lh)
    IN  IF Len(lh) < risk_thresholds.location_min_points THEN 0
        ELSE IF total_movements = 0 THEN 0
        ELSE IF inconsistent THEN Min2(total_inconsistency, ScoreOne)
        ELSE 0

\* the four factor scores, in the order of risk_factors
risk_factors(motoboy_data) ==
    << analyze_carousel_pattern(motoboy_data),
       analyze_speed_patterns(motoboy_data),
       analyze_time_patterns(motoboy_data),
       analyze_location_consistency(motoboy_data) >>

\* mutant: the sum of the factors is not scaled to 0..100
final_risk_scoreUnscaled(motoboy_data) ==
    Min2(SeqSum(risk_factors(motoboy_data)), 100 * ScoreOne)

\* final_risk_score = min(risk_score * 25, 100)
final_risk_score(motoboy_data) ==
    Min2(SeqSum(risk_factors(motoboy_data)) * 25, 100 * ScoreOne)

\* the if/elif chain over final_risk_score
risk_level(score) ==
    IF score <= 25 * ScoreOne THEN "low"
    ELSE IF score <= 50 * ScoreOne THEN "medium"
    ELSE IF score <= 75 * ScoreOne THEN "high"
    ELSE "critical"

\* round(x, 2): the nearest hundredth; a value half-way between two
\* hundredths goes to either, as its binary representation falls
Round2(x) ==
    LET unit == ScoreOne \div 100
        q == x \div unit
        r == x % unit
    IN  IF 2 * r < unit THEN {q * unit}
        ELSE IF 2 * r > unit THEN {(q + 1) * unit}
        ELSE {q * unit, (q + 1) * unit}

-----------------------------------------------------------------------------
(* The couriers analysed: every delivery history made of some cancelled
   deliveries, some deliveries of the usual duration and possibly a very
   short and a very long one; every location history made of at most
   MaxMoves moves *)

MaxCancelled == 9
MaxOnTime == 7
MaxMoves == 4

CancelledDelivery ==
    [ status |-> "cancelled",
      pickup_confirmed_at |-> << >>, delivered_at |-> << >> ]

\* a delivery completed `minutes` after its pickup
DeliveredIn(minutes) ==
    [ status |-> "delivered",
      pickup_confirmed_at |-> <<0>>, delivered_at |-> <<minutes>> ]

MakeHistory(cancelled, on_time, outliers) ==
    [ i \in 1..cancelled |-> CancelledDelivery ]
      \o (IF outliers THEN << DeliveredIn(5) >> ELSE << >>)
      \o [ i \in 1..on_time |-> DeliveredIn(30) ]
      \o (IF outliers THEN << DeliveredIn(55) >> ELSE << >>)

\* no cancelled delivery, or enough of them to fill a history of 10
CancelledCounts == {0, MaxCancelled - 1, MaxCancelled}

DeliveryHistories ==
    { MakeHistory(c, m, o) :
        c \in CancelledCounts, m \in 0..MaxOnTime, o \in BOOLEAN }

\* a slow ride, a ride just above 80 km/h, a jump of 200 km in an hour, and
\* a second report with the same timestamp
Moves ==
    { [dist |-> 2000, hours |-> 1], [dist |-> 80010, hours |-> 1],
      [dist |-> 200000, hours |-> 1], [dist |-> 0, hours |-> 0] }

RECURSIVE Walk(_, _)
Walk(moves, from) ==
    IF moves = << >> THEN << >>
    ELSE LET next == [ pos |-> from.pos + Head(moves).dist,
                       timestamp |-> from.timestamp + Head(moves).hours ]
         IN  << next >> \o Walk(Tail(moves), next)

LocationHistories ==
    LET origin == [pos |-> 0, timestamp |-> 0]
    IN  { << >> } \cup
        { << origin >> \o Walk(ms, origin) :
            ms \in UNION { [1..k -> Moves] : k \in 0..MaxMoves } }

\* a served city and one without boundaries
RiskCities == {"Aracariguama", "Itu"}

\* the courier whose data is analysed
RiskSubjects == {"m1"}

InitRisk ==
    /\ deliveries = << >>
    /\ \E dh \in DeliveryHistories, lh \in LocationHistories,
          city \in RiskCities :
         users = [ u \in RiskSubjects |->
                     [ base_city |-> city,
                       delivery_history |-> dh,
                       location_history |-> lh ] ]
    /\ response = [op |-> "none"]
    /\ prev = [deliveries |-> << >>, users |-> users]
    /\ procs = [w \in Workers |-> Idle]

\* analyze_behavioral_risk(motoboy_data): the report
AnalyzeBehavioralRisk(id) ==
    /\ Remember
    /\ LET motoboy_data == users[id]
           score == final_risk_score(motoboy_data)
           level == risk_level(score)
       IN  \E rounded \in Round2(score) :
             response' =
               [ op |-> "risk",
                 report |->
                   [ motoboy_id |-> id,
                     risk_score |-> rounded,
                     risk_level |-> level,
                     risk_factors |-> risk_factors(motoboy_data),
                     requires_manual_review |-> level \in {"high", "critical"} ] ]
    /\ UNCHANGED <<deliveries, users, procs>>

NextRisk == \E id \in RiskSubjects : AnalyzeBehavioralRisk(id)

SpecRisk == InitRisk /\ [][NextRisk]_vars

\* the step just taken produced a risk report
RiskStep == response.op = "risk"

-----------------------------------------------------------------------------
(* C17 as stated: the aggregate score of every report equals
   min(sum of the four factor scores * 25, 100) and lies within [0, 100],
   every factor score lying within [0, 1]. *)
C17_AggregateScore ==
    RiskStep =>
      LET report == response.report
      IN  /\ report.risk_score =
               Min2(SeqSum(report.risk_factors) * 25, 100 * ScoreOne)
          /\ 0 <= report.risk_score /\ report.risk_score <= 100 * ScoreOne
          /\ \A i \in 1..4 : /\ 0 <= report.risk_factors[i]
                             /\ report.risk_factors[i] <= ScoreOne

(* C17 amended: the aggregate score of every report is
   min(sum of the four factor scores * 25, 100) rounded to two decimal
   places, so it is a whole number of hundredths at most half a hundredth
   away from it, and lies within [0, 100]; every factor score lies within
   [0, 1]. *)
C17_AggregateScoreRounded ==
    RiskStep =>
      LET report == response.report
          exact == Min2(SeqSum(report.risk_factors) * 25, 100 * ScoreOne)
          unit == ScoreOne \div 100
      IN  /\ report.risk_score % unit = 0
          /\ 2 * Abs(report.risk_score - exact) <= unit
          /\ 0 <= report.risk_score /\ report.risk_score <= 100 * ScoreOne
          /\ \A i \in 1..4 : /\ 0 <= report.risk_factors[i]
                             /\ report.risk_factors[i] <= ScoreOne

\* a report whose score was rounded, with a capped speed factor, a carousel
\* factor and a fractional location factor
C17_Witness ==
    /\ RiskStep
    /\ response.report.risk_factors[1] = ScoreOne
    /\ response.report.risk_factors[2] = ScoreOne
    /\ response.report.risk_factors[4] \notin {0, ScoreOne}
    /\ response.report.risk_score
         # SeqSum(response.report.risk_factors) * 25

\* the level the documented thresholds give to a score
ThresholdLevel(score) ==
    CASE score <= 25 * ScoreOne -> "low"
      [] score > 25 * ScoreOne /\ score <= 50 * ScoreOne -> "medium"
      [] score > 50 * ScoreOne /\ score <= 75 * ScoreOne -> "high"
      [] score > 75 * ScoreOne -> "critical"

(* C18: the risk level of a report is the one the thresholds (<= 25 low,
   <= 50 medium, <= 75 high, else critical) give to the score that report
   carries, and requires_manual_review is true exactly when the level is
   high or critical. *)
C18_LevelMatchesScore ==
    RiskStep =>
      LET report == response.report
      IN  /\ report.risk_level = ThresholdLevel(report.risk_score)
          /\ report.requires_manual_review
               <=> report.risk_level \in {"high", "critical"}

\* the number of deliveries of a history that were completed
CompletedCount(dh) ==
    Cardinality({ i \in 1..Len(dh) : dh[i].status = "delivered" })

(* C19: each factor gives way on too little data: with fewer than 10
   deliveries the carousel score is 0, with fewer than 5 location points the
   speed score is 0, with fewer than 5 completed deliveries the time score is
   0, with fewer than 3 location points the location score is 0; a report is
   still produced, and for a courier with empty histories it has score 0 and
   level low. *)
C19_FactorsSoftDegrade ==
    RiskStep =>
      LET report == response.report
          data == users[report.motoboy_id]
          dh == data.delivery_history
          lh == data.location_history
      IN  /\ Len(dh) < 10 => report.risk_factors[1] = 0
          /\ Len(lh) < 5 => report.risk_factors[2] = 0
          /\ CompletedCount(dh) < 5 => report.risk_factors[3] = 0
          /\ Len(lh) < 3 => report.risk_factors[4] = 0
          /\ (dh = << >> /\ lh = << >>) =>
               /\ report.risk_score = 0
               /\ report.risk_level = "low"
               /\ ~report.requires_manual_review

\* a report on 9 deliveries, all cancelled, and 4 location points with a
\* jump: the carousel and speed factors are 0, the location factor is not
C19_Witness ==
    /\ RiskStep
    /\ Len(users["m1"].delivery_history) = 9
    /\ \A i \in 1..9 : users["m1"].delivery_history[i].status = "cancelled"
    /\ Len(users["m1"].location_history) = 4
    /\ response.report.risk_factors[1] = 0
    /\ response.report.risk_factors[2] = 0
    /\ response.report.risk_factors[4] > 0

-----------------------------------------------------------------------------
(* RouteOptimizer.optimize_multiple_deliveries(deliveries, motoboy_location).

   `deliveries` holds the input deliveries, users["m1"] the courier's
   location.  A location is a position in km along a line.  The start point
   is the motoboy_location dict itself: _solve_vehicle_routing reads its
   "lat"/"lng" keys, the distance loop reads its "location" key, so the
   input records which of the two it carries. *)

MaxRoute == 2

RoutePositions == {0, 5}

RoutePriorities == {0, 1}

\* the input lists: deliveries with distinct ids, in any order
RouteInputs ==
    { q \in UNION { [1..n -> [ id : 1..MaxRoute,
                               pickup_address : RoutePositions,
                               delivery_address : RoutePositions,
                               priority_score : RoutePriorities ]] :
                      n \in 0..MaxRoute } :
        \A i \in DOMAIN q, j \in DOMAIN q : q[i].id = q[j].id => i = j }

MotoboyLocations ==
    [ type : {NoneVal}, pos : RoutePositions,
      has_lat_lng : BOOLEAN, has_location : BOOLEAN ]

PickupPoint(delivery) ==
    [ type |-> "pickup", delivery_id |-> delivery.id,
      location |-> delivery.pickup_address,
      priority |-> delivery.priority_score ]

DeliveryPoint(delivery) ==
    [ type |-> "delivery", delivery_id |-> delivery.id,
      location |-> delivery.delivery_address,
      priority |-> delivery.priority_score ]

\* the sort key (-priority, distance from the start point), compared
SortsBefore(a, b, start_point) ==
    \/ a.priority > b.priority
    \/ /\ a.priority = b.priority
       /\ Abs(a.location - start_point.pos) < Abs(b.location - start_point.pos)

\* sorted(...) is stable: x goes before the first element that sorts after it
InsertSorted(q, x, start_point) ==
    LET later == { j \in 1..Len(q) : SortsBefore(x, q[j], start_point) }
    IN  IF later = {} THEN Append(q, x)
        ELSE LET j == CHOOSE k \in later : \A l \in later : k <= l
             IN  SubSeq(q, 1, j - 1) \o << x >> \o SubSeq(q, j, Len(q))

RECURSIVE SortedFrom(_, _, _)
SortedFrom(done, rest, start_point) ==
    IF rest = << >> THEN done
    ELSE SortedFrom(InsertSorted(done, Head(rest), start_point),
                    Tail(rest), start_point)

\* next(d for d in deliveries if d["delivery_id"] == pickup["delivery_id"])
FirstDeliveryFor(points, pickup) ==
    LET i == CHOOSE k \in 1..Len(points) :
               /\ points[k].delivery_id = pickup.delivery_id
               /\ \A l \in 1..(k - 1) :
                    points[l].delivery_id # pickup.delivery_id
    IN  points[i]

RECURSIVE Paired(_, _)
Paired(pickups_sorted, delivery_points) ==
    IF pickups_sorted = << >> THEN << >>
    ELSE << Head(pickups_sorted),
            FirstDeliveryFor(delivery_points, Head(pickups_sorted)) >>
           \o Paired(Tail(pickups_sorted), delivery_points)

\* mutant: the i-th delivery point follows the i-th pickup of the sorted list
solve_vehicle_routingByPosition(points) ==
    LET pickups == SelectSeq(points, LAMBDA p : p.type = "pickup")
        delivery_points == SelectSeq(points, LAMBDA p : p.type = "delivery")
        start_point ==
          Head(SelectSeq(points, LAMBDA p : p.type \notin {"pickup", "delivery"}))
        pickups_sorted == SortedFrom(<< >>, pickups, start_point)
    IN  << start_point >>
          \o [ i \in 1..(2 * Len(pickups_sorted)) |->
                 IF i % 2 = 1 THEN pickups_sorted[(i + 1) \div 2]
                 ELSE delivery_points[i \div 2] ]

\* _solve_vehicle_routing
solve_vehicle_routing(points) ==
    LET pickups == SelectSeq(points, LAMBDA p : p.type = "pickup")
        delivery_points == SelectSeq(points, LAMBDA p : p.type = "delivery")
        start_point ==
          Head(SelectSeq(points, LAMBDA p : p.type \notin {"pickup", "delivery"}))
        pickups_sorted == SortedFrom(<< >>, pickups, start_point)
    IN  << start_point >> \o Paired(pickups_sorted, delivery_points)

InitRoute ==
    /\ deliveries \in RouteInputs
    /\ users \in [ {"m1"} -> MotoboyLocations ]
    /\ response = [op |-> "none"]
    /\ prev = [deliveries |-> deliveries, users |-> users]
    /\ procs = [w \in Workers |-> Idle]

\* optimize_multiple_deliveries: the route, or the KeyError raised when the
\* start point lacks the keys read from it
OptimizeMultipleDeliveries(id) ==
    /\ Remember
    /\ LET motoboy_location == users[id]
           route_points ==
             << motoboy_location >>
               \o [ i \in 1..Len(deliveries) |-> PickupPoint(deliveries[i]) ]
               \o [ i \in 1..Len(deliveries) |-> DeliveryPoint(deliveries[i]) ]
       IN  IF deliveries = << >>
           THEN response' = [op |-> "route", raised |-> NoneVal,
                             optimized_route |-> << >>]
           ELSE IF ~motoboy_location.has_lat_lng
                   \/ ~motoboy_location.has_location
           THEN response' = [op |-> "route", raised |-> "KeyError",
                             optimized_route |-> << >>]
           ELSE response' = [op |-> "route", raised |-> NoneVal,
                             optimized_route |->
                               solve_vehicle_routing(route_points)]
    /\ UNCHANGED <<deliveries, users, procs>>

NextRoute == \E id \in RiskSubjects : OptimizeMultipleDeliveries(id)

SpecRoute == InitRoute /\ [][NextRoute]_vars

\* the step just taken returned a route for a non-empty input
RouteStep ==
    /\ response.op = "route"
    /\ response.raised = NoneVal
    /\ deliveries # << >>

-----------------------------------------------------------------------------
(* C20: in the route returned for a non-empty list of deliveries no delivery
   point comes before the pickup point of its delivery: every input
   delivery's pickup is in the route, immediately followed by the delivery
   point of the same delivery, and every delivery point immediately follows
   its pickup. *)
C20_PickupBeforeDelivery ==
    RouteStep =>
      LET route == response.optimized_route
      IN  /\ \A i \in 1..Len(deliveries) :
               \E k \in 1..(Len(route) - 1) :
                 /\ route[k] = PickupPoint(deliveries[i])
                 /\ route[k + 1] = DeliveryPoint(deliveries[i])
          /\ \A k \in 1..Len(route) :
               route[k].type = "delivery" =>
                 /\ k > 1
                 /\ route[k - 1].type = "pickup"
                 /\ route[k - 1].delivery_id = route[k].delivery_id
          /\ \A k \in 1..Len(route), l \in 1..Len(route) :
               ( /\ route[k].type = "pickup"
                 /\ route[l].type = "delivery"
                 /\ route[k].delivery_id = route[l].delivery_id ) => k < l

\* a route of two deliveries in which the one given second is served first
C20_Witness ==
    /\ RouteStep
    /\ Len(deliveries) = 2
    /\ Len(response.optimized_route) = 5
    /\ response.optimized_route[2].delivery_id = deliveries[2].id
    /\ response.optimized_route[5].delivery_id = deliveries[1].id

-----------------------------------------------------------------------------
(* ChatModerator (security_algorithms.py): moderate_message is a pure
   function of the message.  A message is a sequence of characters; the
   four checks are computed on it as the code computes them.  Confidence
   values are tenths (0.9 is 9). *)

ConfidenceOne == 10

SpamLength == 500

\* _load_profanity_list
profanity_list ==
    << <<"i","d","i","o","t","a">>,
       <<"b","u","r","r","o">>,
       <<"i","m","b","e","c","i","l">>,
       <<"e","s","t","ú","p","i","d","o">>,
       <<"o","t","á","r","i","o">>,
       <<"b","a","b","a","c","a">>,
       <<"c","o","r","n","o">>,
       <<"f","d","p">>,
       <<"m","e","r","d","a">>,
       <<"p","o","r","r","a">> >>

\* _load_positive_keywords
positive_keywords ==
    << <<"o","b","r","i","g","a","d","o">>,
       <<"v","a","l","e","u">>,
       <<"a","j","u","d","a">>,
       <<"d","i","c","a">>,
       <<"i","n","f","o","r","m","a","ç","ã","o">>,
       <<"c","u","i","d","a","d","o">>,
       <<"a","t","e","n","ç","ã","o">>,
       <<"t","r","â","n","s","i","t","o">>,
       <<"b","l","i","t","z">>,
       <<"r","a","d","a","r">>,
       <<"o","b","r","a","s">>,
       <<"d","e","v","a","g","a","r">>,
       <<"s","e","g","u","r","a","n","ç","a">>,
       <<"b","e","l","e","z","a">>,
       <<"t","r","a","n","q","u","i","l","o">>,
       <<"s","u","c","e","s","s","o">>,
       <<"p","a","r","a","b","é","n","s">> >>

\* location_keywords of _check_safety_concerns
location_keywords ==
    << <<"e","n","d","e","r","e","ç","o">>,
       <<"o","n","d","e"," ","m","o","r","o">>,
       <<"c","a","s","a">>,
       <<"r","u","a">>,
       <<"n","ú","m","e","r","o">> >>

\* emergency_keywords of _check_safety_concerns
emergency_keywords ==
    << <<"a","c","i","d","e","n","t","e">>,
       <<"r","o","u","b","o">>,
       <<"a","s","s","a","l","t","o">>,
       <<"e","m","e","r","g","ê","n","c","i","a">>,
       <<"s","o","c","o","r","r","o">>,
       <<"p","o","l","í","c","i","a">> >>

\* harassment_keywords of _check_safety_concerns
harassment_keywords ==
    << <<"i","d","i","o","t","a">>,
       <<"b","u","r","r","o">>,
       <<"i","n","c","o","m","p","e","t","e","n","t","e">> >>

\* the two substrings _check_spam looks for
url_markers ==
    << <<"h","t","t","p">>,
       <<"w","w","w",".">> >>

\* message.lower(), as a tuple of characters
ToLower(message) == << >> \o Lower(message)

\* c.isupper() on one character
IsUpper(c) == \E i \in 1..Len(LowerLetters) : Characters[i] = c

\* s[i:].startswith(w), with i counted from 1
StartsAt(s, w, i) ==
    /\ i + Len(w) - 1 <= Len(s)
    /\ \A k \in 1..Len(w) : s[i + k - 1] = w[k]

\* w in s
Contains(s, w) == \E i \in 1..(Len(s) - Len(w) + 1) : StartsAt(s, w, i)

\* s.replace(w, r) from position i on: the occurrences of w itself, left to
\* right
RECURSIVE ReplaceFrom(_, _, _, _)
ReplaceFrom(s, w, r, i) ==
    IF i > Len(s) THEN << >>
    ELSE IF StartsAt(s, w, i)
         THEN r \o ReplaceFrom(s, w, r, i + Len(w))
         ELSE << s[i] >> \o ReplaceFrom(s, w, r, i + 1)

\* filtered_message.replace(word, "*" * len(word)) for each word found
RECURSIVE MaskWords(_, _)
MaskWords(message, words) ==
    IF words = << >> THEN message
    ELSE MaskWords(ReplaceFrom(message, Head(words),
                               [i \in 1..Len(Head(words)) |-> "*"], 1),
                   Tail(words))

\* any(keyword in message_lower for keyword in keywords)
AnyKeyword(message_lower, keywords) ==
    \E k \in 1..Len(keywords) : Contains(message_lower, keywords[k])

check_profanity(message) ==
    LET message_lower == ToLower(message)
        found_words ==
          SelectSeq(profanity_list,
                    LAMBDA word : Contains(message_lower, word))
    IN  IF found_words # << >>
        THEN [found |-> TRUE,
              filtered |-> MaskWords(message, found_words),
              confidence |-> 9]
        ELSE [found |-> FALSE, filtered |-> message,
              confidence |-> ConfidenceOne]

\* repeated_chars > len * 0.5 and caps / len > 0.7, cross-multiplied
check_spam(message) ==
    LET n == Len(message)
        repeated_chars ==
          Cardinality({ i \in 2..n : message[i] = message[i - 1] })
        caps == Cardinality({ i \in 1..n : IsUpper(message[i]) })
    IN  IF n > SpamLength
        THEN [is_spam |-> TRUE, reason |-> "too_long", confidence |-> 8]
        ELSE IF repeated_chars * 2 > n
        THEN [is_spam |-> TRUE, reason |-> "repeated_chars",
              confidence |-> 7]
        ELSE IF caps * 10 > 7 * n /\ n > 10
        THEN [is_spam |-> TRUE, reason |-> "excessive_caps",
              confidence |-> 6]
        ELSE IF AnyKeyword(ToLower(message), url_markers)
        THEN [is_spam |-> TRUE, reason |-> "contains_url",
              confidence |-> 9]
        ELSE [is_spam |-> FALSE, reason |-> NoneVal,
              confidence |-> ConfidenceOne]

\* the confidence is the one of the last category found, not the lowest
check_safety_concerns(message) ==
    LET message_lower == ToLower(message)
        location == AnyKeyword(message_lower, location_keywords)
        emergency == AnyKeyword(message_lower, emergency_keywords)
        harassment == AnyKeyword(message_lower, harassment_keywords)
        concerns ==
          (IF location THEN << "location_sharing" >> ELSE << >>)
            \o (IF emergency THEN << "emergency" >> ELSE << >>)
            \o (IF harassment THEN << "harassment" >> ELSE << >>)
    IN  [has_concerns |-> Len(concerns) > 0,
         concerns |-> concerns,
         confidence |-> IF harassment THEN 8
                        ELSE IF emergency THEN 9
                        ELSE IF location THEN 7
                        ELSE ConfidenceOne]

check_positive_content(message) ==
    LET message_lower == ToLower(message)
        positive_score ==
          Cardinality({ k \in 1..Len(positive_keywords) :
                          Contains(message_lower, positive_keywords[k]) })
        is_positive == positive_score >= 2
    IN  [is_positive |-> is_positive,
         score |-> positive_score,
         confidence |-> IF is_positive THEN 8 ELSE 5]

\* moderation_result as moderate_message first builds it
InitialResult(message) ==
    [original_message |-> message,
     filtered_message |-> message,
     action |-> "approved",
     confidence |-> ConfidenceOne,
     flags |-> << >>]

\* the four stages of moderate_message, each on the result of the one before
AfterProfanity(r, message) ==
    LET profanity_check == check_profanity(message)
    IN  IF profanity_check.found
        THEN [r EXCEPT !.filtered_message = profanity_check.filtered,
                       !.action = "filtered",
                       !.flags = Append(@, "profanity"),
                       !.confidence = profanity_check.confidence]
        ELSE r

AfterSpam(r, message) ==
    LET spam_check == check_spam(message)
    IN  IF spam_check.is_spam
        THEN [r EXCEPT !.action = "blocked",
                       !.flags = Append(@, "spam"),
                       !.confidence = Min2(@, spam_check.confidence)]
        ELSE r

AfterSafety(r, message) ==
    LET safety_check == check_safety_concerns(message)
    IN  IF safety_check.has_concerns
        THEN [r EXCEPT !.action = "flagged_for_review",
                       !.flags = @ \o safety_check.concerns,
                       !.confidence = Min2(@, safety_check.confidence)]
        ELSE r

\* mutant: a helpful message is approved whatever the earlier stages said
AfterPositiveApproves(r, message) ==
    LET positive_check == check_positive_content(message)
    IN  IF positive_check.is_positive
        THEN [r EXCEPT !.action = "approved",
                       !.flags = Append(@, "helpful"),
                       !.confidence = Max2(@, positive_check.confidence)]
        ELSE r

AfterPositive(r, message) ==
    LET positive_check == check_positive_content(message)
    IN  IF positive_check.is_positive
        THEN [r EXCEPT !.flags = Append(@, "helpful"),
                       !.confidence = Max2(@, positive_check.confidence)]
        ELSE r

\* the result after each stage: initial, profanity, spam, safety, positivity
ModerationStages(message) ==
    LET s0 == InitialResult(message)
        s1 == AfterProfanity(s0, message)
        s2 == AfterSpam(s1, message)
        s3 == AfterSafety(s2, message)
        s4 == AfterPositive(s3, message)
    IN  << s0, s1, s2, s3, s4 >>

moderate_message(message) == ModerationStages(message)[5]

(* The messages moderated: up to MaxWords words separated by one space, the
   message of the repository's test, and two messages of SpamLength + 1
   characters (one of a single upper-case letter, one of two alternating
   lower-case letters). *)
MaxWords == 3

\* the words chat messages are made of
ChatWords ==
    << <<"i","d","i","o","t","a">>,
       <<"I","d","i","o","t","a">>,
       <<"m","e","r","d","a">>,
       <<"h","t","t","p">>,
       <<"c","a","s","a">>,
       <<"s","o","c","o","r","r","o">>,
       <<"o","b","r","i","g","a","d","o">>,
       <<"d","i","c","a">>,
       <<"o","i">>,
       <<"k","k","k","k","k","k">>,
       <<"A","B","C","D","E","F","G","H","I","J","K","L">> >>

SampleMessage ==
    << "E","s","s","e"," ","i","d","i","o","t","a"," ","n","ã","o"," ",
       "s","a","b","e"," ","d","i","r","i","g","i","r","!" >>

RECURSIVE Phrases(_)
Phrases(n) ==
    IF n = 0 THEN { << >> }
    ELSE LET shorter == Phrases(n - 1)
         IN  shorter
               \cup { ChatWords[k] : k \in 1..Len(ChatWords) }
               \cup { p \o << " " >> \o ChatWords[k] :
                        p \in shorter \ { << >> }, k \in 1..Len(ChatWords) }

LongMessages ==
    { [i \in 1..(SpamLength + 1) |-> "A"],
      [i \in 1..(SpamLength + 1) |-> IF i % 2 = 1 THEN "a" ELSE "b"] }

Messages == Phrases(MaxWords) \cup { SampleMessage } \cup LongMessages

\* each user holds the message they are about to send
InitModerate ==
    /\ deliveries = << >>
    /\ users \in [ RiskSubjects -> [ message : Messages ] ]
    /\ response = [op |-> "none"]
    /\ prev = [deliveries |-> deliveries, users |-> users]
    /\ procs = [w \in Workers |-> Idle]

\* moderate_chat_message(message, user_id, city)
ModerateMessage(user_id) ==
    /\ Remember
    /\ response' = [op |-> "moderate", user_id |-> user_id,
                    moderation |-> moderate_message(users[user_id].message)]
    /\ UNCHANGED <<deliveries, users, procs>>

NextModerate == \E user_id \in RiskSubjects : ModerateMessage(user_id)

SpecModerate == InitModerate /\ [][NextModerate]_vars

\* the step just taken moderated this message
ModerateStep == response.op = "moderate"

Moderated == users[response.user_id].message

-----------------------------------------------------------------------------
(* C21: in the moderation pipeline (profanity, spam, safety, positivity) no
   stage takes the action back to approved: once the action after some stage
   is other than approved, the action after every later stage, and so the
   final action, is other than approved. *)
C21_NeverBackToApproved ==
    ModerateStep =>
      LET stages == ModerationStages(Moderated)
      IN  /\ response.moderation = stages[5]
          /\ \A i \in 1..5, j \in 1..5 :
               (i < j /\ stages[i].action # "approved")
                 => stages[j].action # "approved"

\* a message filtered for profanity, then found helpful by the last stage
C21_Witness ==
    /\ ModerateStep
    /\ ModerationStages(Moderated)[2].action = "filtered"
    /\ check_positive_content(Moderated).is_positive
    /\ response.moderation.action # "approved"

-----------------------------------------------------------------------------
(* C22: every message that meets a spam condition (more than SpamLength
   characters, more than half of the characters repeating their
   predecessor, more than 70% upper case in a message longer than 10
   characters, or http / www. in the text) has the final action blocked. *)
C22_SpamIsBlocked ==
    (ModerateStep /\ check_spam(Moderated).is_spam)
      => response.moderation.action = "blocked"

-----------------------------------------------------------------------------
\* the profanity-list word of the repository's test
Idiota == profanity_list[1]

(* C23: a message that contains the profanity-list word idiota and meets no
   spam condition has the final action filtered, and in its filtered text
   every hit is replaced by as many asterisks, so that the filtered text
   has the length of the message and contains no literal idiota. *)
C23_ProfanityIsFiltered ==
    ( /\ ModerateStep
      /\ Contains(ToLower(Moderated), Idiota)
      /\ ~check_spam(Moderated).is_spam )
      => LET filtered == response.moderation.filtered_message
         IN  /\ response.moderation.action = "filtered"
             /\ Len(filtered) = Len(Moderated)
             /\ \A i \in 1..Len(Moderated) :
                  StartsAt(ToLower(Moderated), Idiota, i)
                    => \A k \in 0..(Len(Idiota) - 1) : filtered[i + k] = "*"
             /\ ~Contains(filtered, Idiota)

-----------------------------------------------------------------------------
\* the confidences reported by the stages that changed the action
TriggeredConfidences(message) ==
    { ConfidenceOne }
      \cup (IF check_profanity(message).found
            THEN { check_profanity(message).confidence } ELSE {})
      \cup (IF check_spam(message).is_spam
            THEN { check_spam(message).confidence } ELSE {})
      \cup (IF check_safety_concerns(message).has_concerns
            THEN { check_safety_concerns(message).confidence } ELSE {})

(* C24: the confidence of a moderation result starts at 1.0 and is the
   minimum of the confidences reported by the stages that triggered; no
   stage leaves it above the value an earlier stage left. *)
C24_ConfidenceIsMinimum ==
    ModerateStep =>
      LET stages == ModerationStages(Moderated)
          reported == TriggeredConfidences(Moderated)
      IN  /\ stages[1].confidence = ConfidenceOne
          /\ \A k \in 2..5 : stages[k].confidence <= stages[k - 1].confidence
          /\ response.moderation.confidence
               = CHOOSE c \in reported : \A d \in reported : c <= d

-----------------------------------------------------------------------------
(* DemandPredictor (security_algorithms.py): generate_demand_heatmap for a
   city and a target time, of which the code reads weekday() (0 is Monday,
   6 is Sunday) and the hour.  The two np.random.uniform draws of a zone
   are a choice among Draws, in hundredths; multipliers are tenths, a
   demand before rounding is in units of DemandOne, a rounded demand in
   thousandths.  The drawn confidence and the texts of the heatmap are left
   out.

   The zone scores are binary floating-point numbers, and so are their sum
   and mean: the mean the code compares differs from the decimal mean by a
   rounding error far below the distance between two possible means.  The
   comparison with a threshold is therefore the decimal one whenever the
   decimal mean differs from the threshold, and it can go either way when
   the decimal mean is the threshold itself (0.7, 0.7, 0.7 gives
   0.6999999999999998). *)

DemandOne == 10000000

DemandZone(id, type) == [id |-> id, type |-> type]

\* _initialize_city_zones
city_zones(city) ==
    CASE city = "São Roque" ->
           << DemandZone("sr_center", "commercial"),
              DemandZone("sr_industrial", "industrial"),
              DemandZone("sr_residential", "residential") >>
      [] city = "Mairinque" ->
           << DemandZone("mq_center", "commercial"),
              DemandZone("mq_residential", "residential") >>
      [] city = "Araçariguama" ->
           << DemandZone("ar_center", "commercial"),
              DemandZone("ar_residential", "residential") >>
      [] city = "Alumínio" ->
           << DemandZone("al_center", "commercial"),
              DemandZone("al_industrial", "industrial") >>
      [] city = "Ibiúna" ->
           << DemandZone("ib_center", "commercial"),
              DemandZone("ib_rural", "residential") >>
      [] OTHER -> << >>

\* the first range of hour_multipliers that holds the hour
hour_multiplier(hour) ==
    IF 7 <= hour /\ hour <= 9 THEN 15
    ELSE IF 11 <= hour /\ hour <= 14 THEN 18
    ELSE IF 17 <= hour /\ hour <= 20 THEN 16
    ELSE IF 20 <= hour /\ hour <= 22 THEN 12
    ELSE 10

day_multiplier(day_of_week) ==
    IF day_of_week < 5 THEN 12
    ELSE IF day_of_week = 5 THEN 14
    ELSE 8

zone_multiplier(zone_type) ==
    CASE zone_type = "commercial" -> 15
      [] zone_type = "business_district" -> 18
      [] zone_type = "residential" -> 10
      [] zone_type = "industrial" -> 7
      [] OTHER -> 10

\* round(x, 3) of a demand in units of DemandOne: a tie goes either way
Round3(x) ==
    LET q == x \div 10000
        r == x % 10000
    IN  IF r < 5000 THEN { q }
        ELSE IF r > 5000 THEN { q + 1 }
        ELSE { q, q + 1 }

\* (base_demand, weather_multiplier) as drawn for one zone, in hundredths
Draws ==
    { << 30, 80 >>, << 80, 130 >>, << 50, 100 >>,
      << 36, 108 >>, << 70, 119 >>, << 53, 110 >> }

\* _predict_zone_demand with its two draws given: the possible entries
predict_zone_demand(zone, day_of_week, hour, draw) ==
    LET base_demand == draw[1]
        weather_multiplier == draw[2]
        final_demand ==
          Min2(DemandOne,
               base_demand * hour_multiplier(hour)
                 * day_multiplier(day_of_week)
                 * zone_multiplier(zone.type) * weather_multiplier)
    IN  { [zone_id |-> zone.id,
           predicted_demand |-> demand_score,
           hour_multiplier |-> hour_multiplier(hour),
           day_multiplier |-> day_multiplier(day_of_week),
           zone_multiplier |-> zone_multiplier(zone.type),
           weather_impact |-> weather_multiplier] :
          demand_score \in Round3(final_demand) }

\* heatmap_data as the loop over the zones can build it
RECURSIVE HeatmapData(_, _, _)
HeatmapData(zones, day_of_week, hour) ==
    IF zones = << >> THEN { << >> }
    ELSE { << entry >> \o rest :
             entry \in UNION { predict_zone_demand(Head(zones), day_of_week,
                                                   hour, draw) :
                               draw \in Draws },
             rest \in HeatmapData(Tail(zones), day_of_week, hour) }

\* list.sort(key = predicted_demand, reverse = True): stable
RECURSIVE InsertByDemand(_, _)
InsertByDemand(sorted, entry) ==
    IF sorted = << >> THEN << entry >>
    ELSE IF Head(sorted).predicted_demand >= entry.predicted_demand
         THEN << Head(sorted) >> \o InsertByDemand(Tail(sorted), entry)
         ELSE << entry >> \o sorted

RECURSIVE SortByDemand(_)
SortByDemand(data) ==
    IF data = << >> THEN << >>
    ELSE InsertByDemand(SortByDemand(SubSeq(data, 1, Len(data) - 1)),
                        data[Len(data)])

\* total / n >= tenths / 10 as floating point decides it
FloatMeanAtLeast(total, n, tenths) ==
    IF total * 10 = tenths * 1000 * n
    THEN { TRUE, FALSE }
    ELSE { total * 10 >= tenths * 1000 * n }

\* _calculate_city_demand: the possible results
calculate_city_demand(zones) ==
    LET total_demand ==
          SeqSum([ i \in 1..Len(zones) |-> zones[i].predicted_demand ])
        n == IF Len(zones) = 0 THEN 1 ELSE Len(zones)
    IN  { [level |-> IF high THEN "high"
                     ELSE IF medium THEN "medium" ELSE "low",
           total_zones |-> Len(zones),
           high_demand_zones |->
             Cardinality({ i \in 1..Len(zones) :
                             zones[i].predicted_demand >= 600 })] :
          high \in FloatMeanAtLeast(total_demand, n, 7),
          medium \in FloatMeanAtLeast(total_demand, n, 4) }

\* the heatmaps generate_demand_heatmap can return for sorted heatmap_data
HeatmapsOf(city, sorted) ==
    { [city |-> city,
       zones |-> sorted,
       top_zones |-> SubSeq(sorted, 1, Min2(3, Len(sorted))),
       overall_demand |-> overall] :
      overall \in calculate_city_demand(sorted) }

generate_demand_heatmap(city, day_of_week, hour) ==
    UNION { HeatmapsOf(city, SortByDemand(data)) :
            data \in HeatmapData(city_zones(city), day_of_week, hour) }

Weekdays == 0..6

HeatmapHours == {3, 8, 12, 20, 21}

DemandCities ==
    {"São Roque", "Mairinque", "Araçariguama", "Alumínio", "Ibiúna", "Itu"}

\* each user holds the city and the target time they ask a heatmap for
InitDemand ==
    /\ deliveries = << >>
    /\ users \in [ RiskSubjects -> [ city : DemandCities,
                                     day_of_week : Weekdays,
                                     hour : HeatmapHours ] ]
    /\ response = [op |-> "none"]
    /\ prev = [deliveries |-> deliveries, users |-> users]
    /\ procs = [w \in Workers |-> Idle]

\* predict_demand_for_city(city, target_time)
PredictDemandForCity(id) ==
    /\ Remember
    /\ \E heatmap \in generate_demand_heatmap(users[id].city,
                                              users[id].day_of_week,
                                              users[id].hour) :
         response' = [op |-> "heatmap", user_id |-> id, heatmap |-> heatmap]
    /\ UNCHANGED <<deliveries, users, procs>>

NextDemand == \E id \in RiskSubjects : PredictDemandForCity(id)

SpecDemand == InitDemand /\ [][NextDemand]_vars

\* the step just taken returned a heatmap
HeatmapStep == response.op = "heatmap"

-----------------------------------------------------------------------------
(* C25: for every city and target time the zones of the heatmap are in
   descending order of predicted_demand, top_zones is the first
   min(3, number of zones) entries of that list, every predicted_demand is
   at most 1.0, and the city-level level is high iff the mean of all zone
   scores is at least 0.7. *)
C25_HeatmapShape ==
    HeatmapStep =>
      LET zones == response.heatmap.zones
          total ==
            SeqSum([ i \in 1..Len(zones) |-> zones[i].predicted_demand ])
      IN  /\ \A i \in 1..(Len(zones) - 1) :
               zones[i].predicted_demand >= zones[i + 1].predicted_demand
          /\ response.heatmap.top_zones
               = SubSeq(zones, 1, Min2(3, Len(zones)))
          /\ \A i \in 1..Len(zones) : zones[i].predicted_demand <= 1000
          /\ (response.heatmap.overall_demand.level = "high")
               <=> (Len(zones) > 0 /\ total >= 700 * Len(zones))

-----------------------------------------------------------------------------
(* C26: the day multiplier used for a zone's demand is 1.4 when the target
   time falls on a Friday, 1.2 from Monday to Thursday and 0.8 on Saturday
   and Sunday. *)
C26_DayMultiplier ==
    HeatmapStep =>
      LET day_of_week == users[response.user_id].day_of_week
          zones == response.heatmap.zones
      IN  \A i \in 1..Len(zones) :
            zones[i].day_multiplier
              = IF day_of_week = 4 THEN 14
                ELSE IF day_of_week < 4 THEN 12
                ELSE 8

-----------------------------------------------------------------------------
\* what courier m has been paid for, at most once per delivery assigned to m
EarningsOf(m) ==
    SeqSum([ d \in 1..Len(deliveries) |->
               IF deliveries[d].motoboy_id = m
               THEN deliveries[d].motoboy_earnings + deliveries[d].waiting_fee
               ELSE 0 ])

(* C27: over any sequence of status updates the courier's wallet is credited
   with a delivery's earnings, and total_deliveries incremented, at most
   once per delivery: a courier's total_deliveries never exceeds the number
   of deliveries assigned to that courier, and the wallet never holds more
   than the earnings of those deliveries. *)
C27_CreditedOnce ==
    \A m \in Couriers :
      /\ users[m].total_deliveries
           <= Cardinality({ d \in DOMAIN deliveries :
                              deliveries[d].motoboy_id = m })
      /\ users[m].wallet_balance <= EarningsOf(m)

-----------------------------------------------------------------------------
ActiveStatuses == {"matched", "pickup_confirmed", "in_transit", "waiting"}

\* the deliveries of collection ds that courier m is carrying out
ActiveOf(ds, m) ==
    { d \in DOMAIN ds : ds[d].motoboy_id = m /\ ds[d].status \in ActiveStatuses }

(* C28: a courier who has a delivery in status matched, pickup_confirmed,
   in_transit or waiting is not assigned another one by auto-match or
   accept, so that each courier has at most one active delivery; and a
   courier whose delivery is delivered or cancelled, and who has no active
   delivery, is available. *)
C28_OneActiveDelivery ==
    \A m \in Couriers :
      /\ Cardinality(ActiveOf(deliveries, m)) <= 1
      /\ \A d \in DOMAIN deliveries :
           ( /\ (CreateStep(d) \/ (AcceptStep(d) /\ response.http = 200))
             /\ deliveries[d].motoboy_id = m )
             => ActiveOf(prev.deliveries, m) = {}
      /\ ( /\ ActiveOf(deliveries, m) = {}
           /\ \E d \in DOMAIN deliveries :
                /\ deliveries[d].motoboy_id = m
                /\ deliveries[d].status \in {"delivered", "cancelled"} )
           => users[m].is_available

-----------------------------------------------------------------------------
(* update_waiting_time, and the delivery path with it *)

MaxTotalPrice == 350

calculate_waiting_fee(waiting_minutes) ==
    IF waiting_minutes <= 10 THEN 0 ELSE (waiting_minutes - 10) * 1

UpdateWaitingTime(user_id, delivery_id, waiting_minutes) ==
    /\ Remember
    /\ UNCHANGED procs
    /\ IF users[user_id].user_type # "motoboy"
       THEN /\ response' = [op |-> "waiting", id |-> delivery_id,
                            user |-> user_id, http |-> 403,
                            detail |-> "Only motoboys"]
            /\ UNCHANGED <<deliveries, users>>
       ELSE IF ~Found(deliveries, delivery_id)
       THEN /\ response' = [op |-> "waiting", id |-> delivery_id,
                            user |-> user_id, http |-> 403,
                            detail |-> "Delivery not found or not yours"]
            /\ UNCHANGED <<deliveries, users>>
       ELSE
       LET delivery == deliveries[delivery_id]
           waiting_fee == calculate_waiting_fee(waiting_minutes)
           new_total == delivery.total_price + waiting_fee
           new_motoboy_earnings == delivery.motoboy_earnings + waiting_fee
       IN  IF delivery.motoboy_id # user_id
           THEN /\ response' = [op |-> "waiting", id |-> delivery_id,
                                user |-> user_id, http |-> 403,
                                detail |-> "Delivery not found or not yours"]
                /\ UNCHANGED <<deliveries, users>>
           ELSE /\ new_total <= MaxTotalPrice
                /\ deliveries' =
                     [deliveries EXCEPT ![delivery_id] =
                        ApplySet(@, [waiting_fee |-> waiting_fee,
                                     total_price |-> new_total,
                                     motoboy_earnings |->
                                       new_motoboy_earnings])]
                /\ users' =
                     IF waiting_fee > 0
                     THEN IncUser(users, delivery.lojista_id,
                                  "loja_wallet_balance", 0 - waiting_fee)
                     ELSE users
                /\ response' = [op |-> "waiting", id |-> delivery_id,
                                user |-> user_id, http |-> 200,
                                detail |-> "Tempo de espera atualizado"]

\* waiting_data.waiting_minutes
WaitingMinutes == {5, 170}

NextWaiting ==
    \/ \E u \in Lojistas, city \in Cities, pickup \in Positions,
          drop \in Positions, seed \in Seeds :
         CreateDelivery(u, city, pickup, drop, seed)
    \/ \E u \in Couriers, d \in DeliveryIds, seed \in Seeds :
         AcceptDelivery(u, d, seed)
    \/ \E d \in DeliveryIds, e \in EnteredPins : ValidateDeliveryPin(d, e)
    \/ \E u \in UserIds, d \in DeliveryIds, s \in {"waiting", "delivered"} :
         UpdateDeliveryStatus(u, d, s)
    \/ \E u \in UserIds, d \in DeliveryIds, minutes \in WaitingMinutes :
         UpdateWaitingTime(u, d, minutes)

SpecWaiting == Init /\ [][NextWaiting]_vars

\* the step just taken was an update_waiting_time accepted on delivery d
WaitingStep(d) ==
    /\ response.op = "waiting"
    /\ response.id = d
    /\ response.http = 200

\* what create_delivery can compute as the price of a delivery
CreationPricings ==
    { calculate_delivery_price(calculate_distance(<<pickup>>, <<drop>>)) :
        pickup \in Positions, drop \in Positions }

-----------------------------------------------------------------------------
(* C29: after any sequence of waiting-time updates on a delivery, total_price
   is the price computed at creation plus the current waiting_fee and
   motoboy_earnings the earnings computed at creation plus the current
   waiting_fee; a waiting-time update leaves the shop charged the current
   waiting_fee once (the balance plus the fee in force is what it was before
   the update); and the credit of a delivered update is the earnings
   computed at creation plus the waiting fee, once. *)
C29_WaitingFeeOnce ==
    \A d \in DOMAIN deliveries :
      /\ \E pricing \in CreationPricings :
           /\ deliveries[d].total_price
                = pricing.total_price + deliveries[d].waiting_fee
           /\ deliveries[d].motoboy_earnings
                = pricing.motoboy_earnings + deliveries[d].waiting_fee
      /\ WaitingStep(d) =>
           LET shop == deliveries[d].lojista_id
           IN  users[shop].loja_wallet_balance + deliveries[d].waiting_fee
                 = prev.users[shop].loja_wallet_balance
                     + prev.deliveries[d].waiting_fee
      /\ ( /\ DeliveredStep(d)
           /\ response.http = 200
           /\ deliveries[d].motoboy_id \in Couriers ) =>
           LET m == deliveries[d].motoboy_id
           IN  \E pricing \in CreationPricings :
                 users[m].wallet_balance - prev.users[m].wallet_balance
                   = pricing.motoboy_earnings + prev.deliveries[d].waiting_fee

-----------------------------------------------------------------------------
(* C30: the wallet balance of a shop is never negative, whatever the
   sequence of create_delivery calls and waiting-time updates. *)
C30_ShopBalanceNotNegative ==
    \A shop \in Lojistas : users[shop].loja_wallet_balance >= 0

====
